---- MODULE Spec2Model ----
(***************************************************************************)
(* Verification model of npgo (nghiaomg/npgo): the resolver's specifier    *)
(* normalisation, the tar path cleaner and extractor, the single-package   *)
(* installer (InstallPackage) and the two-stage pipeline installer         *)
(* (InstallPipeline) over a model of the on-disk layout                    *)
(* (node_modules, ~/.npgo/extracted, ~/.npgo/store/v3, ~/.npgo/node_modules)*)
(*                                                                         *)
(* Strings whose characters the code inspects are sequences of one-        *)
(* character strings, so that prefix/suffix/split operations are computed  *)
(* as the code computes them.                                              *)
(***************************************************************************)
EXTENDS Integers, Sequences, FiniteSets, TLC

VARIABLES
    \* ---- normalizeVersion harness (resolver.go) ----
    nSpec,      \* the specifier handed to normalizeVersion
    nOnce,      \* normalizeVersion(nSpec), once computed
    nTwice,     \* normalizeVersion(normalizeVersion(nSpec)), once computed
    npc,        \* "start" | "once" | "twice"
    \* ---- tar extraction harness (extractor) ----
    tDirs,      \* directories that exist, as absolute component sequences
    tFiles,     \* regular files that exist, as absolute component sequences
    tCount,     \* number of tar headers read so far
    tErr,       \* TRUE once extractTarReader has returned an error
    tLast,      \* the last header processed and what cleanTarPath made of it
    \* ---- the disk ----
    fs,         \* node_modules, extract cache, CAS, global directory, .bin, tarball cache
    \* ---- Installer.InstallPackage (one call at a time) ----
    ipc,        \* "idle" | "fetch" | "link" | "marker": where the call stands
    iName,      \* parameter name of the current / last call
    iVer,       \* parameter version of the current / last call
    iRes,       \* local resolvedVersion
    iRet,       \* what the last call returned
    iIO,        \* requests and extractions the current / last call has made
    iStep,      \* the step taken last
    \* ---- Installer.InstallPipeline ----
    pPkgs,      \* parameter pkgs: a sequence of PackageSpec
    pRun,       \* which call of InstallPipeline(pPkgs, ...) this is
    pPrev,      \* what the previous call returned
    pRet,       \* "running" | "nil" | "err": what this call returned
    pDown,      \* tarball requests (StreamTarball) made by this call
    dlJobs,     \* channel dlJobs
    linkJobs,   \* channel linkJobs
    pErrs,      \* number of errors sent to channel errs
    pLastErr,   \* what the last error sent to errs reports
    pFailed,    \* the (name, version) pairs an error was sent for
    dl,         \* per download worker: position, job p, hash, scratch directory
    lk,         \* per link worker: position, item it
    \* ---- version resolution harness (registry) ----
    rKeys,      \* the keys of the registry document's versions map
    rSpec,      \* the specifier / prefix handed in
    rOut,       \* the result
    rpc,        \* "start" | "prefix" | "fetch"
    \* ---- TopoOrder harness (resolver) ----
    oNodes,     \* the Dependency objects that are values of the graph map
    oDeps,      \* for every object, the objects in its Dependencies map
    oOrder,     \* the sequence TopoOrder returned
    opc,        \* "start" | "done"
    \* ---- Resolver: ResolveDependencies, BuildGraph, TopoOrder ----
    gRoot,      \* pkg.Dependencies: name -> spec
    gConc,      \* r.concurrency
    gPre,       \* whether ResolveDependencies(pkg) is called before BuildGraph
    gpc,        \* where the main goroutine stands
    gRem,       \* the entries its current loop has not visited yet
    heap,       \* the Dependency objects allocated so far (a pointer is an index)
    rcache,     \* r.cache: key -> pointer
    mdCache,    \* ~/.npgo/registry-cache/versions: file name -> metadata
    graph,      \* graph: name@resolved -> pointer
    seen,       \* the keys stored in the sync.Map seen
    tasks,      \* the goroutines started by visit, by key
    sem,        \* number of tokens in the channel sem
    wg,         \* the WaitGroup counter
    gCrash,     \* the runtime has stopped the process (fatal error)
    gOrder,     \* the sequence TopoOrder returned
    gOrder2,    \* the sequence TopoOrder returned in a second run
    \* ---- linkPackageBinaries for an object-valued "bin" ----
    bPkg,       \* pkgName
    bBin,       \* raw.Bin: shim name -> path
    bOrder,     \* the order in which range visits the keys of raw.Bin
    bpc,        \* "start" | "done"
    \* ---- the registry index cache of one package ----
    xServer,    \* the number of the index document the registry serves
    xData,      \* registry-cache/<name>.json
    xMeta,      \* the ETag in registry-cache/<name>.meta.json (0: none)
    xMd,        \* registry-cache/versions/<name>@latest.json: the version (0: none)
    \* the callers: where each stands, its locals, the index served when its call
    \* began (start) and whether a complete document was on disk then (had)
    xc,
    \* ---- the registry client's HTTP requests ----
    hProto,     \* the protocol negotiated with the registry: "h1" | "h2"
    hTok,       \* index clients holding a token of httpSem, request not yet sent
    hSent,      \* index clients holding a token, request sent, inside Do
    hBody,      \* index clients past "<-httpSem", reading the response body
    hStream,    \* tarball responses of StreamTarball not yet closed
    \* ---- the marker file on its own ----
    kName,      \* the arguments of writeIntegrity
    kVersion,
    kHash,
    kBytes,     \* the bytes of .npgo-integrity.json on disk
    kTorn,      \* the process stopped before all bytes were written
    kReq,       \* the version the next InstallPackage asks for
    kRead,      \* what readIntegrity returned to it
    kSkip,      \* whether it returned early as up to date
    kpc,        \* "start" | "ondisk" | "checked"
    \* ---- cache locations of two keys ----
    qA,         \* <<name, version>>
    qB,         \* <<name, version>>
    qPaths,     \* the metadata file names and extract paths derived for them
    qpc         \* "start" | "done"

normVars == <<nSpec, nOnce, nTwice, npc>>

tarVars == <<tDirs, tFiles, tCount, tErr, tLast>>

callVars == <<ipc, iName, iVer, iRes, iRet, iIO, iStep>>

pipeVars == <<pPkgs, pRun, pPrev, pRet, pDown, dlJobs, linkJobs, pErrs, pLastErr, pFailed,
              dl, lk>>

resVars == <<rKeys, rSpec, rOut, rpc>>

topoVars == <<oNodes, oDeps, oOrder, opc>>

binVars == <<bPkg, bBin, bOrder, bpc>>

idxVars == <<xServer, xData, xMeta, xMd, xc>>

httpVars == <<hProto, hTok, hSent, hBody, hStream>>

markerVars == <<kName, kVersion, kHash, kBytes, kTorn, kReq, kRead, kSkip, kpc>>

locVars == <<qA, qB, qPaths, qpc>>

graphVars == <<gRoot, gConc, gPre, gpc, gRem, heap, rcache, mdCache, graph, seen, tasks,
               sem, wg, gCrash, gOrder, gOrder2>>

vars == <<normVars, tarVars, fs, callVars, pipeVars, resVars, topoVars, graphVars, binVars, idxVars, httpVars, markerVars, locVars>>

(***************************************************************************)
(* Bounds                                                                  *)
(***************************************************************************)
MaxSpecLen == 3
MaxComps == 3
NumDl == 2
NumLink == 2
MaxPkgs == 2
MaxRuns == 2
MaxKeys == 3
MaxNodes == 3
MaxFanout == 2
MaxConc == 2
NumCallers == 2
MaxIndex == 2
NumClients == 64
NumStreams == 2

\* cap(httpSem)
HttpSemCap == 64
\* HTTPClient.Transport.MaxConnsPerHost
MaxConnsPerHost == 64
MaxEntries == 2

(***************************************************************************)
(* String helpers (Go package strings)                                     *)
(***************************************************************************)

\* all sequences over S of length at most n
RECURSIVE SeqsUpTo(_, _)
SeqsUpTo(S, n) ==
    IF n = 0 THEN {<<>>}
    ELSE LET shorter == SeqsUpTo(S, n - 1)
         IN  shorter \cup {Append(s, c) : s \in {t \in shorter : Len(t) = n - 1}, c \in S}

HasPrefix(s, p) == Len(s) >= Len(p) /\ SubSeq(s, 1, Len(p)) = p

HasSuffix(s, p) == Len(s) >= Len(p) /\ SubSeq(s, Len(s) - Len(p) + 1, Len(s)) = p

TrimPrefix(s, p) == IF HasPrefix(s, p) THEN SubSeq(s, Len(p) + 1, Len(s)) ELSE s

TrimSuffix(s, p) == IF HasSuffix(s, p) THEN SubSeq(s, 1, Len(s) - Len(p)) ELSE s

ContainsChar(s, c) == \E i \in 1..Len(s) : s[i] = c

\* strings.Fields(s): the maximal runs of non-space characters, in order
RECURSIVE FieldsFrom(_, _, _)
FieldsFrom(s, i, cur) ==
    IF i > Len(s) THEN (IF cur = <<>> THEN <<>> ELSE <<cur>>)
    ELSE IF s[i] = " "
         THEN (IF cur = <<>> THEN <<>> ELSE <<cur>>) \o FieldsFrom(s, i + 1, <<>>)
         ELSE FieldsFrom(s, i + 1, Append(cur, s[i]))

Fields(s) == FieldsFrom(s, 1, <<>>)

(***************************************************************************)
(* resolver.normalizeVersion                                               *)
(***************************************************************************)
STR_latest == <<"l", "a", "t", "e", "s", "t">>

\* outcome of a call that dies with a runtime panic (index out of range)
PANIC == <<"!panic">>

StripOperators(spec) ==
    LET s1 == TrimPrefix(spec, <<"^">>)
        s2 == TrimPrefix(s1, <<"~">>)
        s3 == TrimPrefix(s2, <<">", "=">>)
        s4 == TrimPrefix(s3, <<"<", "=">>)
        s5 == TrimPrefix(s4, <<">">>)
    IN  TrimPrefix(s5, <<"<">>)

StripWildcardSuffix(spec) ==
    IF HasSuffix(spec, <<".", "x">>) \/ HasSuffix(spec, <<".", "*">>)
    THEN TrimSuffix(TrimSuffix(spec, <<".", "x">>), <<".", "*">>)
    ELSE spec

normalizeVersion(spec0) ==
    IF spec0 = PANIC THEN PANIC
    ELSE
    LET spec == StripOperators(spec0)
    IN  IF spec = <<"1", ".", "x">> \/ spec = <<"1", ".", "*">> THEN <<"1">>
        ELSE LET sfx == StripWildcardSuffix(spec)
             IN  IF ContainsChar(sfx, " ") /\ Fields(sfx) = <<>> THEN PANIC
                 ELSE LET tok == IF ContainsChar(sfx, " ") THEN Fields(sfx)[1] ELSE sfx
                      IN  IF tok = <<>> \/ tok = <<"*">> \/ tok = STR_latest
                          THEN STR_latest
                          ELSE tok

(***************************************************************************)
(* extractor.cleanTarPath and extractTarReader                             *)
(*                                                                         *)
(* A tar entry name is a sequence of symbols; "/" and "." are the          *)
(* characters the code looks at, "package" and "evil" stand for the        *)
(* letters of a file or directory name (the code never looks inside a      *)
(* component other than comparing it with "" and ".").                     *)
(***************************************************************************)

\* strings.Split(s, "/")
RECURSIVE SplitFrom(_, _, _)
SplitFrom(s, i, cur) ==
    IF i > Len(s) THEN <<cur>>
    ELSE IF s[i] = "/"
         THEN <<cur>> \o SplitFrom(s, i + 1, <<>>)
         ELSE SplitFrom(s, i + 1, Append(cur, s[i]))

Split(s) == SplitFrom(s, 1, <<>>)

\* strings.Join(parts, "/")
RECURSIVE JoinSlash(_)
JoinSlash(parts) ==
    IF Len(parts) = 0 THEN <<>>
    ELSE IF Len(parts) = 1 THEN parts[1]
    ELSE parts[1] \o <<"/">> \o JoinSlash(Tail(parts))

IsSkippedPart(part) == part = <<>> \/ part = <<".">>

\* index (1-based) of the first component that is neither "" nor ".", 0 if none
PackageIndex(parts) ==
    IF \E i \in 1..Len(parts) : ~IsSkippedPart(parts[i])
    THEN CHOOSE i \in 1..Len(parts) :
            /\ ~IsSkippedPart(parts[i])
            /\ \A j \in 1..(i - 1) : IsSkippedPart(parts[j])
    ELSE 0

cleanTarPath(path) ==
    LET parts == Split(path)
        idx   == PackageIndex(parts)
    IN  IF idx = 0 THEN <<>>
        ELSE IF idx < Len(parts)
             THEN JoinSlash(SubSeq(parts, idx + 1, Len(parts)))
             ELSE <<>>

\* filepath.Clean applied to base followed by the components comps:
\* "" and "." are dropped, ".." removes the last component (and is dropped
\* at the root)
RECURSIVE CleanOnto(_, _)
CleanOnto(base, comps) ==
    IF Len(comps) = 0 THEN base
    ELSE LET c == Head(comps)
         IN  IF IsSkippedPart(c) THEN CleanOnto(base, Tail(comps))
             ELSE IF c = <<".", ".">>
                  THEN CleanOnto(IF Len(base) = 0 THEN base
                                 ELSE SubSeq(base, 1, Len(base) - 1), Tail(comps))
                  ELSE CleanOnto(Append(base, c), Tail(comps))

\* filepath.Join(dest, rel) for an absolute dest already clean
FilepathJoin(dest, rel) == CleanOnto(dest, Split(rel))

\* filepath.Dir of a clean absolute path
FilepathDir(p) == IF Len(p) = 0 THEN p ELSE SubSeq(p, 1, Len(p) - 1)

Prefixes(p) == {SubSeq(p, 1, k) : k \in 0..Len(p)}

IsUnder(p, dir) == Len(p) >= Len(dir) /\ SubSeq(p, 1, Len(dir)) = dir

\* the destination directory handed to the extractor: <tmpDir>/package
DestDir == <<<<"scratch">>, <<"package">>>>

\* os.MkdirAll(p): fails when a component of p is a regular file
MkdirAllOk(files, p) == Prefixes(p) \cap files = {}

MkdirAll(dirs, p) == dirs \cup Prefixes(p)

TarTypes == {"dir", "reg", "other"}

\* entry names: every string of at most MaxComps components, separated by
\* "/", whose components are "", ".", "..", "package" or "evil"
NameComponents == {<<>>, <<".">>, <<".", ".">>, <<"package">>, <<"evil">>}

EntryNames == {JoinSlash(cs) : cs \in SeqsUpTo(NameComponents, MaxComps) \ {<<>>}}

NoEntry == [name |-> <<>>, type |-> "none", clean |-> <<>>, full |-> <<>>, outcome |-> "none"]

TarInit ==
    /\ tDirs = Prefixes(DestDir)
    /\ tFiles = {}
    /\ tCount = 0
    /\ tErr = FALSE
    /\ tLast = NoEntry

TarPark ==
    /\ tDirs = {}
    /\ tFiles = {}
    /\ tCount = MaxEntries
    /\ tErr = TRUE
    /\ tLast = NoEntry

TarFrame == UNCHANGED <<normVars, fs, callVars, pipeVars, resVars, topoVars, graphVars,
    binVars,
    idxVars,
    httpVars,
    markerVars,
    locVars>>

\* one iteration of the loop of extractTarReader on a header (name, type)
ExtractEntry(name, type) ==
    /\ tCount < MaxEntries
    /\ ~tErr
    /\ tCount' = tCount + 1
    /\ LET cleanPath == cleanTarPath(name)
           fullPath  == FilepathJoin(DestDir, cleanPath)
       IN  IF type = "other" \/ cleanPath = <<>>
           THEN /\ tLast' = [name |-> name, type |-> type, clean |-> cleanPath,
                             full |-> <<>>, outcome |-> "skipped"]
                /\ UNCHANGED <<tDirs, tFiles, tErr>>
           ELSE IF type = "dir"
           THEN IF MkdirAllOk(tFiles, fullPath)
                THEN /\ tDirs' = MkdirAll(tDirs, fullPath)
                     /\ tLast' = [name |-> name, type |-> type, clean |-> cleanPath,
                                  full |-> fullPath, outcome |-> "written"]
                     /\ UNCHANGED <<tFiles, tErr>>
                ELSE /\ tErr' = TRUE
                     /\ tLast' = [name |-> name, type |-> type, clean |-> cleanPath,
                                  full |-> fullPath, outcome |-> "error"]
                     /\ UNCHANGED <<tDirs, tFiles>>
           ELSE IF ~MkdirAllOk(tFiles, FilepathDir(fullPath))
                THEN /\ tErr' = TRUE
                     /\ tLast' = [name |-> name, type |-> type, clean |-> cleanPath,
                                  full |-> fullPath, outcome |-> "error"]
                     /\ UNCHANGED <<tDirs, tFiles>>
                ELSE IF fullPath \in MkdirAll(tDirs, FilepathDir(fullPath))
                THEN \* os.Create on a directory fails, after the parents were made
                     /\ tDirs' = MkdirAll(tDirs, FilepathDir(fullPath))
                     /\ tErr' = TRUE
                     /\ tLast' = [name |-> name, type |-> type, clean |-> cleanPath,
                                  full |-> fullPath, outcome |-> "error"]
                     /\ UNCHANGED tFiles
                ELSE /\ tDirs' = MkdirAll(tDirs, FilepathDir(fullPath))
                     /\ tFiles' = tFiles \cup {fullPath}
                     /\ tLast' = [name |-> name, type |-> type, clean |-> cleanPath,
                                  full |-> fullPath, outcome |-> "written"]
                     /\ UNCHANGED tErr
    /\ TarFrame

ExtractStep == \E name \in EntryNames, type \in TarTypes : ExtractEntry(name, type)

(***************************************************************************)
(* registry: version strings, parseSemver, resolveVersionFromMap,          *)
(* FetchMetadata                                                           *)
(***************************************************************************)
Digits == {"0", "1", "2", "3", "4", "5", "6", "7", "8", "9"}

DigitVal(c) ==
    CASE c = "0" -> 0 [] c = "1" -> 1 [] c = "2" -> 2 [] c = "3" -> 3 [] c = "4" -> 4
      [] c = "5" -> 5 [] c = "6" -> 6 [] c = "7" -> 7 [] c = "8" -> 8 [] c = "9" -> 9

\* the result parseSemver gives for a string it does not accept
BadSemver == <<-1, -1, -1>>

\* the loop of parseSemver from (1-based) position i, with the segment
\* values n found so far, the digits accumulated in cur and segment index seg
RECURSIVE ParseSemverFrom(_, _, _, _, _)
ParseSemverFrom(v, i, n, cur, seg) ==
    IF i > Len(v) + 1 THEN n
    ELSE IF i = Len(v) + 1 \/ v[i] = "."
         THEN ParseSemverFrom(v, i + 1,
                              IF seg < 3 THEN [n EXCEPT ![seg + 1] = cur] ELSE n,
                              0, seg + 1)
         ELSE IF v[i] \notin Digits THEN BadSemver
              ELSE ParseSemverFrom(v, i + 1, n, cur * 10 + DigitVal(v[i]), seg)

parseSemver(v) ==
    LET n == ParseSemverFrom(v, 1, BadSemver, 0, 0)
    IN  IF n[1] < 0 THEN BadSemver
        ELSE <<n[1], IF n[2] < 0 THEN 0 ELSE n[2], IF n[3] < 0 THEN 0 ELSE n[3]>>

\* the prefix parser of resolveVersionFromMap: the list of numeric segments
\* of s, or <<-1>> when s holds a character that is neither a digit nor "."
RECURSIVE PrefixPartsFrom(_, _, _, _)
PrefixPartsFrom(s, i, parts, cur) ==
    IF i > Len(s) THEN (IF Len(s) > 0 THEN Append(parts, cur) ELSE parts)
    ELSE IF s[i] = "." THEN PrefixPartsFrom(s, i + 1, Append(parts, cur), 0)
    ELSE IF s[i] \notin Digits THEN <<-1>>
    ELSE PrefixPartsFrom(s, i + 1, parts, cur * 10 + DigitVal(s[i]))

SemverGreater_PatchIgnored(a, b) ==
    \/ a[1] > b[1]
    \/ a[1] = b[1] /\ a[2] > b[2]

\* the comparison of resolveVersionFromMap line 135
SemverGreater(a, b) ==
    \/ a[1] > b[1]
    \/ a[1] = b[1] /\ (a[2] > b[2] \/ (a[2] = b[2] /\ a[3] > b[3]))

\* the orders in which `for v := range versions` can visit the keys
Orders(S) == {o \in [1..Cardinality(S) -> S] : \A x \in S : \E i \in DOMAIN o : o[i] = x}

\* the loop of resolveVersionFromMap lines 121-139 over the keys in the
\* order given, from position i with best / bestMaj,bestMin,bestPatch
RECURSIVE ResolveLoop(_, _, _, _, _)
ResolveLoop(order, i, parts, best, bestT) ==
    IF i > Len(order) THEN best
    ELSE LET v == order[i]
             t == parseSemver(v)
         IN  IF t[1] < 0 THEN ResolveLoop(order, i + 1, parts, best, bestT)
             ELSE IF Len(parts) = 1 /\ t[1] # parts[1]
                  THEN ResolveLoop(order, i + 1, parts, best, bestT)
             ELSE IF Len(parts) = 2 /\ (t[1] # parts[1] \/ t[2] # parts[2])
                  THEN ResolveLoop(order, i + 1, parts, best, bestT)
             ELSE IF SemverGreater(t, bestT)
                  THEN ResolveLoop(order, i + 1, parts, v, t)
                  ELSE ResolveLoop(order, i + 1, parts, best, bestT)

\* resolveVersionFromMap(versions, spec), versions given by its key set:
\* the set of results the loop can end with (the iteration order of a Go
\* map is not fixed); <<>> is "".
resolveVersionFromMap(versions, spec) ==
    LET s == IF Len(spec) > 2 /\ (HasSuffix(spec, <<".", "x">>) \/ HasSuffix(spec, <<".", "*">>))
             THEN SubSeq(spec, 1, Len(spec) - 2) ELSE spec
        parts == PrefixPartsFrom(s, 1, <<>>, 0)
        segs  == Len(parts)
    IN  IF parts = <<-1>> \/ segs = 0 \/ segs > 2 THEN {<<>>}
        ELSE {ResolveLoop(o, 1, parts, <<>>, BadSemver) : o \in Orders(versions)}

V100 == <<"1", ".", "0", ".", "0">>
V110 == <<"1", ".", "1", ".", "0">>
V200 == <<"2", ".", "0", ".", "0">>
V999 == <<"9", ".", "9", ".", "9">>

NameA == <<"a">>
NameB == <<"b">>
NameVersion == <<"v", "e", "r", "s", "i", "o", "n">>

Names == {NameA, NameB, NameVersion}

\* The tarballs the registry serves.  entries: the names of the regular-file
\* headers; bin: the "bin" field of its package.json; body: the part of the
\* raw stream the tar reader needs (up to the end-of-archive blocks);
\* tail: the bytes that follow (rest of the gzip member).
TarA100 == [entries |-> {<<"package", "/", "package.json">>, <<"package", "/", "cli.js">>},
            bin |-> <<"cli.js">>, body |-> "A100", tail |-> "x"]
TarA110 == [entries |-> {<<"package", "/", "package.json">>, <<"package", "/", "cli.js">>},
            bin |-> <<"cli.js">>, body |-> "A110", tail |-> "x"]
TarB200 == [entries |-> {<<"package", "/", "package.json">>},
            bin |-> <<>>, body |-> "B200", tail |-> "y"]

TarV100 == [entries |-> {<<"package", "/", "package.json">>},
            bin |-> <<>>, body |-> "V100", tail |-> "z"]

Tarballs == {TarA100, TarA110, TarB200, TarV100}

\* the registry documents: versions (key -> tarball) and dist-tags.latest
Registry ==
    (NameA :> [versions |-> (V100 :> TarA100 @@ V110 :> TarA110), latest |-> V110]) @@
    (NameB :> [versions |-> (V200 :> TarB200), latest |-> V200]) @@
    (NameVersion :> [versions |-> (V100 :> TarV100), latest |-> V100])

NoMetadata == [ok |-> FALSE, Version |-> <<>>, Tarball |-> TarB200]

\* FetchMetadata(pkgName, version) on the registry document doc: the set of
\* results it can return (one, unless resolveVersionFromMap has a tie)
FetchMetadata(doc, version) ==
    LET target == IF version = STR_latest THEN doc.latest ELSE version
        keys   == DOMAIN doc.versions
    IN  IF target \in keys
        THEN {[ok |-> TRUE, Version |-> target, Tarball |-> doc.versions[target]]}
        ELSE {IF r = <<>> THEN NoMetadata
              ELSE [ok |-> TRUE, Version |-> r, Tarball |-> doc.versions[r]]
                : r \in resolveVersionFromMap(keys, target)}

(***************************************************************************)
(* installer: integrity marker file (writeIntegrity / readIntegrity)       *)
(***************************************************************************)
Q == "\""

\* strings.Index(s, sub), 1-based; 0 when sub does not occur
IndexOf(s, sub) ==
    LET hits == {i \in 1..(Len(s) - Len(sub) + 1) : SubSeq(s, i, i + Len(sub) - 1) = sub}
    IN  IF hits = {} THEN 0 ELSE CHOOSE i \in hits : \A j \in hits : i <= j

\* the bytes writeIntegrity writes for (name, version, hash)
FormatIntegrity(name, version, hash) ==
    <<"{", "\n", " ", " ", Q, "n", "a", "m", "e", Q, ":", " ", Q>> \o name \o
    <<Q, ",", "\n", " ", " ", Q, "v", "e", "r", "s", "i", "o", "n", Q, ":", " ", Q>> \o version \o
    <<Q, ",", "\n", " ", " ", Q, "h", "a", "s", "h", Q, ":", " ", Q>> \o hash \o
    <<Q, "\n", "}", "\n">>

VersionKey == <<Q, "v", "e", "r", "s", "i", "o", "n", Q>>

\* readIntegrity on the bytes bs of the marker file: [ok, version]
ParseIntegrity(bs) ==
    LET idx == IndexOf(bs, VersionKey)
    IN  IF idx = 0 THEN [ok |-> FALSE, version |-> <<>>]
        ELSE LET rest1 == SubSeq(bs, idx + Len(VersionKey), Len(bs))
                 q1    == IndexOf(rest1, <<Q>>)
             IN  IF q1 = 0 THEN [ok |-> FALSE, version |-> <<>>]
                 ELSE LET rest2 == SubSeq(rest1, q1 + 1, Len(rest1))
                          q2    == IndexOf(rest2, <<Q>>)
                      IN  IF q2 = 0 THEN [ok |-> FALSE, version |-> <<>>]
                          ELSE [ok |-> TRUE, version |-> SubSeq(rest2, 1, q2 - 1)]

\* a marker file is kept as the arguments writeIntegrity was called with;
\* its bytes are FormatIntegrity of them
NoFile == [name |-> <<"-">>, version |-> <<"-">>, hash |-> <<"-">>, present |-> FALSE]

MarkerFile(name, version, hash) ==
    [name |-> name, version |-> version, hash |-> hash, present |-> TRUE]

\* readIntegrity(dir) where m is the marker file of dir: the version string
\* the caller sees ("" on any error, since the caller drops the error)
readIntegrity(m) ==
    IF ~m.present THEN <<>>
    ELSE LET r == ParseIntegrity(FormatIntegrity(m.name, m.version, m.hash))
         IN  IF r.ok THEN r.version ELSE <<>>

(***************************************************************************)
(* The on-disk state.  fs is a record of maps; a path that does not exist  *)
(* is not in the domain of its map.                                        *)
(*   nm        node_modules/<name>            (the slot)                   *)
(*   extracted ~/.npgo/extracted/<dirname>    (the extract path)           *)
(*   cas       ~/.npgo/store/v3/<hash>/package                             *)
(*   glob      ~/.npgo/node_modules/<name>                                 *)
(*   bin       node_modules/.bin/<shim>                                    *)
(*   tgz       ~/.npgo/cache/<filename>       (a set of file names)        *)
(* A node is a symbolic link (LinkTo) or a directory (DirOf) holding       *)
(* files (path -> content) and possibly a marker file.                     *)
(***************************************************************************)
Absent == [kind |-> "absent"]

LinkTo(area, key) == [kind |-> "link", area |-> area, to |-> key]

DirOf(files, marker) == [kind |-> "dir", files |-> files, marker |-> marker]

EmptyMap == [x \in {} |-> x]

Get(m, k) == IF k \in DOMAIN m THEN m[k] ELSE Absent

Put(m, k, v) == [x \in DOMAIN m \cup {k} |-> IF x = k THEN v ELSE m[x]]

Del(m, k) == [x \in DOMAIN m \ {k} |-> m[x]]

EmptyFS == [nm |-> EmptyMap, extracted |-> EmptyMap, cas |-> EmptyMap,
            glob |-> EmptyMap, bin |-> EmptyMap, tgz |-> {}]

NoLoc == [area |-> "none", key |-> <<>>]

Loc(area, key) == [area |-> area, key |-> key]

\* os.Stat / filepath.EvalSymlinks: the directory a path resolves to
ResolveCas(f, h) ==
    IF Get(f.cas, h).kind = "dir" THEN Loc("cas", h) ELSE NoLoc

ResolveExtract(f, k) ==
    LET nd == Get(f.extracted, k)
    IN  CASE nd.kind = "dir"  -> Loc("extracted", k)
          [] nd.kind = "link" -> ResolveCas(f, nd.to)
          [] OTHER            -> NoLoc

ResolveSlot(f, n) ==
    LET nd == Get(f.nm, n)
    IN  CASE nd.kind = "dir"  -> Loc("nm", n)
          [] nd.kind = "link" -> ResolveExtract(f, nd.to)
          [] OTHER            -> NoLoc

DirAt(f, loc) ==
    CASE loc.area = "cas"       -> f.cas[loc.key]
      [] loc.area = "extracted" -> f.extracted[loc.key]
      [] loc.area = "nm"        -> f.nm[loc.key]

SetDirAt(f, loc, d) ==
    CASE loc.area = "cas"       -> [f EXCEPT !.cas = Put(@, loc.key, d)]
      [] loc.area = "extracted" -> [f EXCEPT !.extracted = Put(@, loc.key, d)]
      [] loc.area = "nm"        -> [f EXCEPT !.nm = Put(@, loc.key, d)]

(***************************************************************************)
(* cache: file names                                                       *)
(***************************************************************************)
replaceUnsafeChars(name) ==
    [i \in 1..Len(name) |-> IF name[i] \in {"@", "/", "\\"} THEN "-" ELSE name[i]]

formatFilename(pkgName, version) ==
    replaceUnsafeChars(pkgName) \o <<"-">> \o version \o <<".", "t", "g", "z">>

formatDirname(pkgName, version) ==
    replaceUnsafeChars(pkgName) \o <<"-">> \o version

\* the file name DownloadTarball writes: fmt.Sprintf("%s-%s.tgz", ...)
DownloadFilename(pkgName, version) ==
    pkgName \o <<"-">> \o version \o <<".", "t", "g", "z">>

(***************************************************************************)
(* cas and the digest tee                                                  *)
(***************************************************************************)

\* SHA-256 as an injective function of the bytes fed to the hasher
Sha256(bytes) == <<"sha256">> \o bytes

RawStream(t) == <<t.body, t.tail>>

\* What the tee has fed to the hasher when ExtractFromReader returns: the
\* tar reader stops at the end-of-archive blocks and nothing drains the
\* stream, so the bytes after the body are hashed only if the gzip reader's
\* buffer happened to read them ahead.
ConsumedPrefixes(t) == {<<t.body>>, <<t.body, t.tail>>}

\* the tree ExtractFromReader / ExtractTarGz leaves in dest: path -> content
Tree(t) ==
    [p \in {cleanTarPath(e) : e \in t.entries} \ {<<>>} |-> t.body]

\* cas.EnsureDirs(hash): os.MkdirAll of the package directory itself
EnsureDirs(f, h) ==
    IF Get(f.cas, h) = Absent
    THEN [f EXCEPT !.cas = Put(@, h, DirOf(EmptyMap, NoFile))]
    ELSE f

\* cas.Exists(hash)
CasExists(f, h) == Get(f.cas, h).kind = "dir"

\* os.Rename(tmpPkg, casPath) when casPath does not exist
RenameIntoCas(f, h, tree) == [f EXCEPT !.cas = Put(@, h, DirOf(tree, NoFile))]

\* cas.EnsureExtractedCache(hash): called at installer.go:114 and :589 with
\* its result discarded; its body is not in the source tree, and it is taken
\* to leave the paths of this model as they are
EnsureExtractedCache(f, h) == f

\* exists, _ := cas.Exists(hash); if !exists { ... os.Rename(tmpPkg, casPath) }
PromoteIfAbsent(f, h, tree) ==
    IF ~CasExists(f, h) THEN RenameIntoCas(f, h, tree) ELSE f

\* the promotion of an extracted scratch tree: EnsureDirs, Exists, Rename
Promote(f, h, tree) == PromoteIfAbsent(EnsureDirs(f, h), h, tree)

(***************************************************************************)
(* installer: linking                                                      *)
(***************************************************************************)

\* linkDirPreferSymlink(casPath, extractPath): RemoveAll(dst); Symlink
linkDirPreferSymlink(f, h, key) ==
    [f EXCEPT !.extracted = Put(@, key, LinkTo("cas", h))]

\* createSymlink(name, extractPath) once the target has been found to exist
createSymlink(f, name, key) ==
    [f EXCEPT !.nm = Put(@, name, LinkTo("extracted", key))]

\* ensureGlobalPackageLink(name, extractPath)
ensureGlobalPackageLink(f, name, key) ==
    LET resolved == ResolveExtract(f, key)
        target   == IF resolved = NoLoc THEN LinkTo("extracted", key)
                    ELSE LinkTo(resolved.area, resolved.key)
    IN  [f EXCEPT !.glob = Put(@, name, target)]

PackageJSON == <<"package.json">>

BinOf(content) == (CHOOSE t \in Tarballs : t.body = content).bin

\* createBinShimNamed on POSIX: a symlink .bin/<binName> -> ../<pkgName>/<rel>
createBinShimNamed(f, binName, pkgName, rel) ==
    [f EXCEPT !.bin = Put(@, binName, <<pkgName, rel>>)]

\* linkPackageBinaries(pkgName, extractPath), for a string-valued "bin"
linkPackageBinaries(f, pkgName, key) ==
    LET loc == ResolveExtract(f, key)
    IN  IF loc = NoLoc THEN f
        ELSE IF PackageJSON \notin DOMAIN DirAt(f, loc).files THEN f
        ELSE LET v == BinOf(DirAt(f, loc).files[PackageJSON])
             IN  IF v = <<>> THEN f
                 ELSE createBinShimNamed(f, pkgName, pkgName, v)

\* writeIntegrity(dir, name, version, hash) for dir = node_modules/<slot>:
\* MkdirAll(dir) makes a real directory when nothing is there, and the
\* file is written to wherever dir leads
writeIntegrity(f, slot, name, version, hash) ==
    LET nd  == Get(f.nm, slot)
        loc == ResolveSlot(f, slot)
    IN  IF nd = Absent
        THEN [f EXCEPT !.nm = Put(@, slot, DirOf(EmptyMap, MarkerFile(name, version, hash)))]
        ELSE IF loc = NoLoc THEN f
        ELSE SetDirAt(f, loc, [DirAt(f, loc) EXCEPT !.marker = MarkerFile(name, version, hash)])

(***************************************************************************)
(* Installer.InstallPackage, as the steps of one call, and the fetch       *)
(* command.  Symlinks are available (POSIX), so the junction / hardlink /  *)
(* copy fallbacks of the linker are not taken.                             *)
(***************************************************************************)
RequestVersions == {V100, V110, <<"1">>, <<"1", ".", "0">>, STR_latest, V999, <<>>}

NoIO == [meta |-> 0, tar |-> 0, extract |-> 0]

RetNone == [kind |-> "none", version |-> <<>>]
RetRunning == [kind |-> "running", version |-> <<>>]
RetErr == [kind |-> "err", version |-> <<>>]
RetOk(v) == [kind |-> "ok", version |-> v]

InstallInit ==
    /\ fs = EmptyFS
    /\ ipc = "idle"
    /\ iName = NameA
    /\ iVer = <<>>
    /\ iRes = <<>>
    /\ iRet = RetNone
    /\ iIO = NoIO
    /\ iStep = "none"

InstallPark ==
    /\ fs = EmptyFS
    /\ ipc = "parked"
    /\ iName = NameA
    /\ iVer = <<>>
    /\ iRes = <<>>
    /\ iRet = RetNone
    /\ iIO = NoIO
    /\ iStep = "none"

InstallFrame == UNCHANGED <<normVars, tarVars, pipeVars, resVars, topoVars, graphVars,
    binVars,
    idxVars,
    httpVars,
    markerVars,
    locVars>>

\* installer.go:49, the comparison that decides the early return
SkipMatch(iv, version) == iv = version

\* installer.go:154, the version written into the marker
MarkerVersion(requested, resolved) == resolved

\* InstallPackage lines 44-53: the idempotency check
InstallPackage_Check(name, version) ==
    /\ ipc = "idle"
    /\ iName' = name
    /\ iVer' = version
    /\ iRes' = version
    /\ iIO' = NoIO
    /\ iStep' = "check"
    /\ LET loc == ResolveSlot(fs, name)
       IN  IF loc # NoLoc /\ SkipMatch(readIntegrity(DirAt(fs, loc).marker), version)
           THEN /\ iRet' = RetOk(version)
                /\ ipc' = "idle"
                /\ fs' = fs
           ELSE /\ iRet' = RetRunning
                /\ ipc' = "fetch"
                /\ fs' = IF loc # NoLoc THEN [fs EXCEPT !.nm = Del(@, name)] ELSE fs
    /\ InstallFrame

\* InstallPackage lines 55-128: cache check, metadata, stream, extract,
\* promote into CAS, link the extract path
InstallPackage_Fetch ==
    /\ ipc = "fetch"
    /\ iStep' = "fetch"
    /\ UNCHANGED <<iName, iVer>>
    /\ IF formatFilename(iName, iVer) \in fs.tgz
       THEN /\ ipc' = "link"
            /\ UNCHANGED <<fs, iRes, iRet, iIO>>
       ELSE \E netOk \in BOOLEAN, md \in FetchMetadata(Registry[iName], iVer) :
            IF ~netOk \/ ~md.ok
            THEN /\ iIO' = [iIO EXCEPT !.meta = 1]
                 /\ iRet' = RetErr
                 /\ ipc' = "idle"
                 /\ UNCHANGED <<fs, iRes>>
            ELSE /\ iRes' = md.Version
                 /\ IF formatFilename(iName, md.Version) \in fs.tgz
                    THEN /\ iIO' = [iIO EXCEPT !.meta = 1]
                         /\ ipc' = "link"
                         /\ UNCHANGED <<fs, iRet>>
                    ELSE \E streamOk \in BOOLEAN, extractOk \in BOOLEAN,
                            consumed \in ConsumedPrefixes(md.Tarball) :
                         IF ~streamOk
                         THEN /\ iIO' = [iIO EXCEPT !.meta = 1, !.tar = 1]
                              /\ iRet' = RetErr
                              /\ ipc' = "idle"
                              /\ fs' = fs
                         ELSE IF ~extractOk
                         THEN /\ iIO' = [meta |-> 1, tar |-> 1, extract |-> 1]
                              /\ iRet' = RetErr
                              /\ ipc' = "idle"
                              /\ fs' = fs
                         ELSE /\ iIO' = [meta |-> 1, tar |-> 1, extract |-> 1]
                              /\ iRet' = iRet
                              /\ ipc' = "link"
                              /\ LET h  == Sha256(consumed)
                                     f1 == Promote(fs, h, Tree(md.Tarball))
                                     f2 == EnsureExtractedCache(f1, h)
                                 IN  fs' = linkDirPreferSymlink(f2, h,
                                               formatDirname(iName, md.Version))
    /\ InstallFrame

\* InstallPackage lines 130-152: slot symlink, global link, shims
InstallPackage_Link ==
    /\ ipc = "link"
    /\ iStep' = "link"
    /\ UNCHANGED <<iName, iVer, iRes, iIO>>
    /\ LET key == formatDirname(iName, iRes)
       IN  IF ResolveExtract(fs, key) = NoLoc
           THEN /\ iRet' = RetErr
                /\ ipc' = "idle"
                /\ fs' = fs
           ELSE /\ iRet' = iRet
                /\ ipc' = "marker"
                /\ fs' = linkPackageBinaries(
                            ensureGlobalPackageLink(createSymlink(fs, iName, key), iName, key),
                            iName, key)
    /\ InstallFrame

\* InstallPackage lines 154-156: the marker, and the return
InstallPackage_Marker ==
    /\ ipc = "marker"
    /\ iStep' = "marker"
    /\ UNCHANGED <<iName, iVer, iRes, iIO>>
    /\ fs' = writeIntegrity(fs, iName, iName, MarkerVersion(iVer, iRes), <<>>)
    /\ iRet' = RetOk(iRes)
    /\ ipc' = "idle"
    /\ InstallFrame

\* the process is stopped (killed, interrupted) between two steps of
\* InstallPackage; the next command starts from what is on disk
ProcessStops ==
    /\ ipc \in {"fetch", "link", "marker"}
    /\ ipc' = "idle"
    /\ iStep' = "stopped"
    /\ iRet' = RetNone
    /\ UNCHANGED <<fs, iName, iVer, iRes, iIO>>
    /\ InstallFrame

\* `npgo fetch name@version`: DownloadTarball into the tarball cache and
\* ExtractTarGz into the extract path
FetchCmd(name, version) ==
    /\ ipc = "idle"
    /\ formatFilename(name, version) \notin fs.tgz
    /\ iStep' = "fetchcmd"
    /\ UNCHANGED <<ipc, iName, iVer, iRes, iRet, iIO>>
    /\ \E md \in FetchMetadata(Registry[name], version) :
         /\ md.ok
         /\ LET key  == formatDirname(name, md.Version)
                f1   == [fs EXCEPT !.tgz = @ \cup {DownloadFilename(name, md.Version)}]
                loc  == ResolveExtract(f1, key)
                tree == Tree(md.Tarball)
            IN  IF Get(f1.extracted, key) = Absent
                THEN fs' = [f1 EXCEPT !.extracted = Put(@, key, DirOf(tree, NoFile))]
                ELSE IF loc = NoLoc THEN fs' = f1
                ELSE fs' = SetDirAt(f1, loc,
                              [DirAt(f1, loc) EXCEPT !.files =
                                  [q \in DOMAIN @ \cup DOMAIN tree |->
                                      IF q \in DOMAIN tree THEN tree[q] ELSE @[q]]])
    /\ InstallFrame

\* the calls made in this harness (command lines `npgo install <name>[@<version>]`
\* and `npgo fetch <name>[@<version>]`)
InstallCalls == {<<NameA, v>> : v \in RequestVersions} \cup {<<NameVersion, V100>>}

FetchCalls == {<<NameA, v>> : v \in RequestVersions}

InstallCall == \E c \in InstallCalls : InstallPackage_Check(c[1], c[2])

FetchCall == \E c \in FetchCalls : FetchCmd(c[1], c[2])

InstallNext ==
    \/ InstallCall
    \/ InstallPackage_Fetch
    \/ InstallPackage_Link
    \/ InstallPackage_Marker
    \/ FetchCall

\* the calls `npgo install a@1.0.0`, `npgo install a@latest` and `npgo install a@`
StopCalls == {<<NameA, V100>>, <<NameA, STR_latest>>, <<NameA, <<>>>>}

\* InstallPackage calls that the process may not live to finish
InstallStopNext ==
    \/ \E c \in StopCalls : InstallPackage_Check(c[1], c[2])
    \/ InstallPackage_Fetch
    \/ InstallPackage_Link
    \/ InstallPackage_Marker
    \/ ProcessStops

(***************************************************************************)
(* Installer.InstallPipeline: download workers and link workers running    *)
(* concurrently over the channels dlJobs and linkJobs.  The sends of all   *)
(* pkgs and close(dlJobs) happen at the start of the call (the channel has *)
(* room for all of them); a worker's loop ends when its channel is closed  *)
(* and drained.                                                            *)
(***************************************************************************)
DlWorkers == 1..NumDl

LinkWorkers == 1..NumLink

\* the PackageSpec values handed to the pipeline
PackageSpecs ==
    {[Name |-> NameA, Version |-> V100, Tarball |-> TarA100],
     [Name |-> NameA, Version |-> V110, Tarball |-> TarA110],
     [Name |-> NameB, Version |-> V200, Tarball |-> TarB200]}

PipeInputs == SeqsUpTo(PackageSpecs, MaxPkgs) \ {<<>>}

NoHash == <<>>

NoScratch == [exists |-> FALSE, files |-> EmptyMap]

DlIdle == [pc |-> "idle", job |-> [Name |-> <<>>, Version |-> <<>>, Tarball |-> TarB200],
           hash |-> NoHash, tmp |-> NoScratch]

LkIdle == [pc |-> "idle", it |-> [name |-> <<>>, version |-> <<>>, casPath |-> NoHash]]

PipeInit ==
    /\ pPkgs \in PipeInputs
    /\ pRun = 1
    /\ pPrev = "none"
    /\ pRet = "running"
    /\ pDown = 0
    /\ dlJobs = pPkgs
    /\ linkJobs = <<>>
    /\ pErrs = 0
    /\ pLastErr = "none"
    /\ pFailed = {}
    /\ dl = [w \in DlWorkers |-> DlIdle]
    /\ lk = [w \in LinkWorkers |-> LkIdle]

PipePark ==
    /\ pPkgs = <<>>
    /\ pRun = 0
    /\ pPrev = "none"
    /\ pRet = "parked"
    /\ pDown = 0
    /\ dlJobs = <<>>
    /\ linkJobs = <<>>
    /\ pErrs = 0
    /\ pLastErr = "none"
    /\ pFailed = {}
    /\ dl = [w \in DlWorkers |-> DlIdle]
    /\ lk = [w \in LinkWorkers |-> LkIdle]

PipeFrame == UNCHANGED <<normVars, tarVars, callVars, resVars, topoVars, graphVars,
    binVars,
    idxVars,
    httpVars,
    markerVars,
    locVars>>

ChanCap_Unbuffered(pkgs) == 0

\* InstallPipeline lines 531-533: the capacity of dlJobs, linkJobs and errs
ChanCap(pkgs) == Len(pkgs)

PipeResult_AlwaysNil(n) == "nil"

\* InstallPipeline lines 631-637: the first error read from errs, or nil
PipeResult(n) == IF n > 0 THEN "err" ELSE "nil"

\* dlWorker lines 541-558: receive p, StreamTarball, sha256.New, TeeReader,
\* MkdirTemp
DlStream(w) ==
    /\ pRet = "running"
    /\ dl[w].pc = "idle"
    /\ dlJobs # <<>>
    /\ dlJobs' = Tail(dlJobs)
    /\ pDown' = pDown + 1
    /\ \E streamOk \in BOOLEAN, tmpOk \in BOOLEAN :
         IF ~streamOk \/ ~tmpOk
         THEN IF pErrs < ChanCap(pPkgs)
              THEN /\ pErrs' = pErrs + 1
                   /\ pLastErr' = IF ~streamOk THEN "stream" ELSE "mkdirtemp"
                   /\ pFailed' = pFailed \cup {<<Head(dlJobs).Name, Head(dlJobs).Version>>}
                   /\ dl' = dl
              ELSE /\ UNCHANGED <<pErrs, pLastErr, pFailed>>
                   /\ dl' = [dl EXCEPT ![w].pc = "blocked"]
         ELSE /\ pErrs' = pErrs
              /\ pLastErr' = pLastErr
              /\ pFailed' = pFailed
              /\ dl' = [dl EXCEPT ![w] = [pc |-> "stream", job |-> Head(dlJobs),
                                          hash |-> NoHash,
                                          tmp |-> [exists |-> TRUE, files |-> EmptyMap]]]
    /\ UNCHANGED <<fs, pPkgs, pRun, pPrev, pRet, linkJobs, lk>>
    /\ PipeFrame

AfterExtractError_KeepsScratch(d) == [d EXCEPT !.pc = "idle"]

\* dlWorker lines 560-564: stream.Close, os.RemoveAll(tmpDir), continue
AfterExtractError(d) == DlIdle

\* dlWorker lines 559-566: ExtractFromReader(tee, tmpPkg), stream.Close,
\* hash := hex(h.Sum(nil))
DlExtract(w) ==
    /\ dl[w].pc = "stream"
    /\ \E extractOk \in BOOLEAN, consumed \in ConsumedPrefixes(dl[w].job.Tarball) :
         IF ~extractOk
         THEN IF pErrs < ChanCap(pPkgs)
              THEN /\ pErrs' = pErrs + 1
                   /\ pLastErr' = "extract"
                   /\ pFailed' = pFailed \cup {<<dl[w].job.Name, dl[w].job.Version>>}
                   /\ dl' = [dl EXCEPT ![w] = AfterExtractError(dl[w])]
              ELSE /\ UNCHANGED <<pErrs, pLastErr, pFailed>>
                   /\ dl' = [dl EXCEPT ![w] = [DlIdle EXCEPT !.pc = "blocked"]]
         ELSE /\ pErrs' = pErrs
              /\ pLastErr' = pLastErr
              /\ pFailed' = pFailed
              /\ dl' = [dl EXCEPT ![w].pc = "hashed",
                                  ![w].hash = Sha256(consumed),
                                  ![w].tmp = [exists |-> TRUE,
                                              files |-> Tree(dl[w].job.Tarball)]]
    /\ UNCHANGED <<fs, pPkgs, pRun, pPrev, pRet, pDown, dlJobs, linkJobs, lk>>
    /\ PipeFrame

\* dlWorker line 567: casPath, err := cas.EnsureDirs(hash)
DlEnsureDirs(w) ==
    /\ dl[w].pc = "hashed"
    /\ fs' = EnsureDirs(fs, dl[w].hash)
    /\ dl' = [dl EXCEPT ![w].pc = "ensured"]
    /\ UNCHANGED <<pPkgs, pRun, pPrev, pRet, pDown, dlJobs, linkJobs, pErrs, pLastErr, pFailed, lk>>
    /\ PipeFrame

\* dlWorker lines 573-587: cas.Exists(hash) and, if it says no, the rename
\* of the scratch tree to casPath
DlPromote(w) ==
    /\ dl[w].pc = "ensured"
    /\ fs' = PromoteIfAbsent(fs, dl[w].hash, dl[w].tmp.files)
    /\ dl' = [dl EXCEPT ![w].pc = "promoted",
                        ![w].tmp = IF ~CasExists(fs, dl[w].hash)
                                   THEN [exists |-> TRUE, files |-> EmptyMap]
                                   ELSE @]
    /\ UNCHANGED <<pPkgs, pRun, pPrev, pRet, pDown, dlJobs, linkJobs, pErrs, pLastErr, pFailed, lk>>
    /\ PipeFrame

\* dlWorker lines 588-590: RemoveAll(tmpDir), EnsureExtractedCache, send
\* the link item
DlFinish(w) ==
    /\ dl[w].pc = "promoted"
    /\ Len(linkJobs) < ChanCap(pPkgs)
    /\ fs' = EnsureExtractedCache(fs, dl[w].hash)
    /\ linkJobs' = Append(linkJobs, [name |-> dl[w].job.Name,
                                     version |-> dl[w].job.Version,
                                     casPath |-> dl[w].hash])
    /\ dl' = [dl EXCEPT ![w] = DlIdle]
    /\ UNCHANGED <<pPkgs, pRun, pPrev, pRet, pDown, dlJobs, pErrs, pLastErr, pFailed, lk>>
    /\ PipeFrame

\* linkWorker lines 597-604: receive it, link the extract path to casPath,
\* global link, shims
LkLink(w) ==
    /\ lk[w].pc = "idle"
    /\ linkJobs # <<>>
    /\ linkJobs' = Tail(linkJobs)
    /\ lk' = [lk EXCEPT ![w] = [pc |-> "linked", it |-> Head(linkJobs)]]
    /\ LET it  == Head(linkJobs)
           key == formatDirname(it.name, it.version)
       IN  fs' = linkPackageBinaries(
                    ensureGlobalPackageLink(
                        linkDirPreferSymlink(fs, it.casPath, key), it.name, key),
                    it.name, key)
    /\ UNCHANGED <<pPkgs, pRun, pPrev, pRet, pDown, dlJobs, pErrs, pLastErr, pFailed, dl>>
    /\ PipeFrame

\* linkWorker line 605: writeIntegrity(node_modules/<name>, name, version, "")
LkMarker(w) ==
    /\ lk[w].pc = "linked"
    /\ fs' = writeIntegrity(fs, lk[w].it.name, lk[w].it.name, lk[w].it.version, <<>>)
    /\ lk' = [lk EXCEPT ![w].pc = "marked"]
    /\ UNCHANGED <<pPkgs, pRun, pPrev, pRet, pDown, dlJobs, linkJobs, pErrs, pLastErr, pFailed, dl>>
    /\ PipeFrame

\* linkWorker lines 607-610: createSymlink(name, extractPath)
LkSymlink(w) ==
    /\ lk[w].pc = "marked"
    /\ LET key == formatDirname(lk[w].it.name, lk[w].it.version)
       IN  IF ResolveExtract(fs, key) = NoLoc
           THEN /\ fs' = fs
                /\ IF pErrs < ChanCap(pPkgs)
                   THEN /\ pErrs' = pErrs + 1
                        /\ pLastErr' = "symlink"
                        /\ pFailed' = pFailed \cup {<<lk[w].it.name, lk[w].it.version>>}
                        /\ lk' = [lk EXCEPT ![w] = LkIdle]
                   ELSE /\ UNCHANGED <<pErrs, pLastErr, pFailed>>
                        /\ lk' = [lk EXCEPT ![w].pc = "blocked"]
           ELSE /\ pErrs' = pErrs
                /\ pLastErr' = pLastErr
                /\ pFailed' = pFailed
                /\ fs' = createSymlink(fs, lk[w].it.name, key)
                /\ lk' = [lk EXCEPT ![w] = LkIdle]
    /\ UNCHANGED <<pPkgs, pRun, pPrev, pRet, pDown, dlJobs, linkJobs, dl>>
    /\ PipeFrame

\* InstallPipeline lines 627-637: both wait groups are done, errs is read
PipeReturn ==
    /\ pRet = "running"
    /\ dlJobs = <<>>
    /\ linkJobs = <<>>
    /\ \A w \in DlWorkers : dl[w].pc = "idle"
    /\ \A w \in LinkWorkers : lk[w].pc = "idle"
    /\ pRet' = PipeResult(pErrs)
    /\ UNCHANGED <<fs, pPkgs, pRun, pPrev, pDown, dlJobs, linkJobs, pErrs, pLastErr, pFailed, dl, lk>>
    /\ PipeFrame

\* the caller runs InstallPipeline again on the same package list
PipeRerun ==
    /\ pRet \in {"nil", "err"}
    /\ pRun < MaxRuns
    /\ pRun' = pRun + 1
    /\ pPrev' = pRet
    /\ pRet' = "running"
    /\ pDown' = 0
    /\ pErrs' = 0
    /\ pLastErr' = "none"
    /\ pFailed' = {}
    /\ dlJobs' = pPkgs
    /\ UNCHANGED <<fs, pPkgs, linkJobs, dl, lk>>
    /\ PipeFrame

DlStep == \E w \in DlWorkers :
    DlStream(w) \/ DlExtract(w) \/ DlEnsureDirs(w) \/ DlPromote(w) \/ DlFinish(w)

LkStep == \E w \in LinkWorkers : LkLink(w) \/ LkMarker(w) \/ LkSymlink(w)

PipeNext ==
    \/ DlStep
    \/ LkStep
    \/ PipeReturn
    \/ PipeRerun

(***************************************************************************)
(* Harness for version resolution: the key set of the registry document    *)
(* and the specifier are inputs                                            *)
(***************************************************************************)
V120 == <<"1", ".", "2", ".", "0">>
V123 == <<"1", ".", "2", ".", "3">>
V129 == <<"1", ".", "2", ".", "9">>
V1210 == <<"1", ".", "2", ".", "1", "0">>
V130 == <<"1", ".", "3", ".", "0">>
V129rc == <<"1", ".", "2", ".", "9", "-", "r", "c">>

KeyUniverse == {V100, V120, V123, V129, V1210, V130, V200, V129rc}

KeySets == {K \in SUBSET KeyUniverse : Cardinality(K) >= 1 /\ Cardinality(K) <= MaxKeys}

ResSpecs ==
    {<<"1">>, <<"2">>, <<"3">>, <<"1", ".", "2">>, <<"1", ".", "3">>,
     <<"1", ".", "x">>, <<"1", ".", "2", ".", "x">>, <<"1", ".", "2", ".", "*">>,
     <<"^">> \o V120, <<"~">> \o V120, V120, <<"^">> \o V123, <<"^", "1", ".", "2">>}

NoResult == [ok |-> FALSE, Version |-> <<"?">>]

ResInit ==
    /\ rKeys \in KeySets
    /\ rSpec \in ResSpecs
    /\ rOut = NoResult
    /\ rpc = "start"

ResPark ==
    /\ rKeys = {}
    /\ rSpec = <<>>
    /\ rOut = NoResult
    /\ rpc = "parked"

ResFrame == UNCHANGED <<normVars, tarVars, fs, callVars, pipeVars, topoVars, graphVars,
    binVars,
    idxVars,
    httpVars,
    markerVars,
    locVars>>

\* the registry document whose versions map has the keys K
DocOf(K) == [versions |-> [k \in K |-> TarB200],
             latest |-> CHOOSE k \in K : TRUE]

\* resolveVersionFromMap(versions, rSpec)
ResolvePrefix ==
    /\ rpc = "start"
    /\ \E r \in resolveVersionFromMap(rKeys, rSpec) :
         rOut' = [ok |-> r # <<>>, Version |-> r]
    /\ rpc' = "prefix"
    /\ UNCHANGED <<rKeys, rSpec>>
    /\ ResFrame

\* resolveDependency lines 85-90 on a per-version cache miss:
\* FetchMetadata(name, normalizeVersion(rSpec))
ResolveSpec ==
    /\ rpc = "start"
    /\ \E md \in FetchMetadata(DocOf(rKeys), normalizeVersion(rSpec)) :
         rOut' = [ok |-> md.ok, Version |-> md.Version]
    /\ rpc' = "fetch"
    /\ UNCHANGED <<rKeys, rSpec>>
    /\ ResFrame

ResNext == ResolvePrefix \/ ResolveSpec

(***************************************************************************)
(* resolver: TopoOrder.  Dependency objects are numbered; iter is the      *)
(* order in which `for _, d := range graph` visits the values of the map   *)
(* and kids[d] the order in which `range d.Dependencies` visits d's        *)
(* children (neither order is fixed by Go).                                *)
(***************************************************************************)

\* lines 241-249: indeg[c] after the first loop
IndegOf(iter, kids, c) ==
    Cardinality({ij \in (DOMAIN iter) \X (1..MaxFanout) :
                    ij[2] <= Len(kids[iter[ij[1]]]) /\ kids[iter[ij[1]]][ij[2]] = c})

\* lines 241-249: children[d] after the first loop
ChildrenOf(iter, kids, d) ==
    IF \E i \in DOMAIN iter : iter[i] = d THEN kids[d] ELSE <<>>

\* lines 261-266: the loop over children[d], from position i
RECURSIVE TopoRelax(_, _, _, _)
TopoRelax(cs, i, indeg, q) ==
    IF i > Len(cs) THEN [indeg |-> indeg, q |-> q]
    ELSE LET c  == cs[i]
             n  == indeg[c] - 1
         IN  TopoRelax(cs, i + 1, [indeg EXCEPT ![c] = n],
                       IF n = 0 THEN Append(q, c) ELSE q)

\* lines 257-267: the queue loop
RECURSIVE TopoDrain(_, _, _, _, _)
TopoDrain(iter, kids, q, indeg, order) ==
    IF q = <<>> THEN order
    ELSE LET d == Head(q)
             r == TopoRelax(ChildrenOf(iter, kids, d), 1, indeg, Tail(q))
         IN  TopoDrain(iter, kids, r.q, r.indeg, Append(order, d))

\* lines 268-275 and 278-283: append the elements of src not yet in acc
RECURSIVE AppendUnseen(_, _, _)
AppendUnseen(acc, src, i) ==
    IF i > Len(src) THEN acc
    ELSE AppendUnseen(IF \E j \in DOMAIN acc : acc[j] = src[i] THEN acc
                      ELSE Append(acc, src[i]),
                      src, i + 1)

\* TopoOrder(graph), objs being the objects that exist
TopoOrderOn(objs, iter, kids) ==
    LET indeg == [c \in objs |-> IndegOf(iter, kids, c)]
        q     == SelectSeq(iter, LAMBDA d : indeg[d] = 0)
        order == TopoDrain(iter, kids, q, indeg, <<>>)
        uniq  == AppendUnseen(<<>>, order, 1)
    IN  IF Len(uniq) # Len(iter) THEN AppendUnseen(uniq, iter, 1) ELSE uniq

TopoOrder(iter, kids) == TopoOrderOn(1..MaxNodes, iter, kids)

TopoInit ==
    /\ oNodes \in SUBSET (1..MaxNodes) \ {{}}
    /\ oDeps \in [1..MaxNodes -> {D \in SUBSET (1..MaxNodes) : Cardinality(D) <= MaxFanout}]
    /\ oOrder = <<>>
    /\ opc = "start"

TopoPark ==
    /\ oNodes = {}
    /\ oDeps = [n \in 1..MaxNodes |-> {}]
    /\ oOrder = <<>>
    /\ opc = "parked"

TopoFrame == UNCHANGED <<normVars, tarVars, fs, callVars, pipeVars, resVars, graphVars,
    binVars,
    idxVars,
    httpVars,
    markerVars,
    locVars>>

\* one call TopoOrder(graph) on the graph map whose values are oNodes
TopoRun ==
    /\ opc = "start"
    /\ \E iter \in Orders(oNodes) :
       \E kids \in [1..MaxNodes -> UNION {Orders(D) : D \in SUBSET (1..MaxNodes)}] :
         /\ \A n \in 1..MaxNodes : kids[n] \in Orders(oDeps[n])
         /\ oOrder' = TopoOrder(iter, kids)
    /\ opc' = "done"
    /\ UNCHANGED <<oNodes, oDeps>>
    /\ TopoFrame

TopoNext == TopoRun

(***************************************************************************)
(* resolver: resolveDependency, ResolveDependencies, BuildGraph.  The main *)
(* goroutine optionally runs ResolveDependencies (as installFromPackageJSON*)
(* does), then BuildGraph, whose goroutines are the elements of tasks.     *)
(* r.cache is a plain Go map read and written by the goroutines without a  *)
(* lock: an access that overlaps another goroutine's write either passes   *)
(* unnoticed or makes the runtime stop the process ("concurrent map        *)
(* writes" / "concurrent map read and map write").                         *)
(***************************************************************************)
NameC == <<"c">>
NameP == <<"p">>
NameQ == <<"q">>
NameX == <<"x">>

Caret100 == <<"^">> \o V100

NoDeps == [n \in {} |-> <<>>]

\* the registry documents of this harness: per version, the dependencies
GRegistry ==
    (NameA :> [versions |-> (V100 :> [deps |-> (NameC :> Caret100)]), latest |-> V100]) @@
    (NameB :> [versions |-> (V100 :> [deps |-> (NameC :> Caret100)]), latest |-> V100]) @@
    (NameC :> [versions |-> (V100 :> [deps |-> NoDeps]), latest |-> V100]) @@
    (NameP :> [versions |-> (V100 :> [deps |-> (NameQ :> V100)]), latest |-> V100]) @@
    (NameQ :> [versions |-> (V100 :> [deps |-> (NameP :> V100)]), latest |-> V100]) @@
    (NameX :> [versions |-> [v \in {} |-> [deps |-> NoDeps]], latest |-> V100])

\* the root requirement maps (pkg.Dependencies) of this harness
RootSiblings == (NameA :> Caret100) @@ (NameB :> Caret100)
RootShared == (NameA :> Caret100) @@ (NameC :> V100)
RootCycle == (NameP :> V100)
RootFailing == (NameA :> V100) @@ (NameB :> V100) @@ (NameX :> V100)

GraphRoots == {RootSiblings, RootShared, RootCycle, RootFailing}

\* the specifiers that occur in this harness
GraphSpecs == {V100, Caret100}

\* normalizeVersion on each specifier of the harness, computed once
NormalizedSpec == [s \in GraphSpecs |-> normalizeVersion(s)]

\* registry.FetchMetadata on each package and version asked for, computed once
RegistryAnswers ==
    [n \in DOMAIN GRegistry |->
        [v \in {NormalizedSpec[s] : s \in GraphSpecs} |-> FetchMetadata(GRegistry[n], v)]]

\* key := name + "@" + spec
KeyOf(name, spec) == name \o <<"@">> \o spec

\* getMetadataCached line 163-164: the file name of the per-version cache
MdPath(name, version) ==
    [i \in 1..Len(name) |-> IF name[i] \in {"/", "\\"} THEN "-" ELSE name[i]]
        \o <<"@">> \o version \o <<".", "j", "s", "o", "n">>

\* getMetadataCached(name, version): the results it can give, each with the
\* per-version cache afterwards
getMetadataCached(cache, name, version) ==
    IF MdPath(name, version) \in DOMAIN cache
    THEN {[ok |-> TRUE, md |-> cache[MdPath(name, version)], cache |-> cache]}
    ELSE {IF netOk /\ r.ok
          THEN [ok |-> TRUE, md |-> [Version |-> r.Version, deps |-> r.Tarball.deps],
                cache |-> Put(cache, MdPath(name, version),
                              [Version |-> r.Version, deps |-> r.Tarball.deps])]
          ELSE [ok |-> FALSE, md |-> [Version |-> <<>>, deps |-> NoDeps], cache |-> cache]
            : netOk \in BOOLEAN, r \in RegistryAnswers[name][version]}

\* resolveDependency lines 111-118: the new Dependency (Dependencies is an
\* empty map and nothing ever adds to it)
NewDependency(name, spec, md) ==
    [Name |-> name, Spec |-> spec, Resolved |-> md.Version, RawDeps |-> md.deps]

\* the goroutine started for a key; starts and lookups count, per key, the
\* goroutines started and the calls of getMetadataCached that went to the
\* registry
NewTask(name, spec) ==
    [name |-> name, spec |-> spec, pc |-> "spawned", dep |-> 0, rem |-> {},
     starts |-> 1, lookups |-> 0]

GraphInit ==
    /\ gRoot \in GraphRoots
    /\ gConc \in 1..MaxConc
    /\ gPre \in BOOLEAN
    /\ gpc = IF gPre THEN "pre" ELSE "visit"
    /\ gRem = DOMAIN gRoot
    /\ heap = <<>>
    /\ rcache = EmptyMap
    /\ mdCache = EmptyMap
    /\ graph = EmptyMap
    /\ seen = {}
    /\ tasks = EmptyMap
    /\ sem = 0
    /\ wg = 0
    /\ gCrash = FALSE
    /\ gOrder = <<>>
    /\ gOrder2 = <<>>

GraphPark ==
    /\ gRoot = EmptyMap
    /\ gConc = 1
    /\ gPre = FALSE
    /\ gpc = "parked"
    /\ gRem = {}
    /\ heap = <<>>
    /\ rcache = EmptyMap
    /\ mdCache = EmptyMap
    /\ graph = EmptyMap
    /\ seen = {}
    /\ tasks = EmptyMap
    /\ sem = 0
    /\ wg = 0
    /\ gCrash = FALSE
    /\ gOrder = <<>>
    /\ gOrder2 = <<>>

GraphFrame == UNCHANGED <<normVars, tarVars, fs, callVars, pipeVars, resVars, topoVars,
    binVars,
    idxVars,
    httpVars,
    markerVars,
    locVars>>

\* ResolveDependencies lines 51-57: one iteration, resolveDependency run by
\* the main goroutine alone
PreResolve ==
    /\ gpc = "pre"
    /\ ~gCrash
    /\ \E n \in gRem :
         LET key == KeyOf(n, gRoot[n])
         IN  IF key \in DOMAIN rcache
             THEN /\ UNCHANGED <<heap, rcache, mdCache>>
                  /\ gRem' = gRem \ {n}
                  /\ gpc' = IF gRem = {n} THEN "visit" ELSE "pre"
             ELSE \E r \in getMetadataCached(mdCache, n, NormalizedSpec[gRoot[n]]) :
                    /\ mdCache' = r.cache
                    /\ IF r.ok
                       THEN /\ heap' = Append(heap, NewDependency(n, gRoot[n], r.md))
                            /\ rcache' = Put(rcache, key, Len(heap) + 1)
                            /\ gRem' = gRem \ {n}
                            /\ gpc' = IF gRem = {n} THEN "visit" ELSE "pre"
                       ELSE /\ UNCHANGED <<heap, rcache>>
                            /\ gRem' = gRem
                            /\ gpc' = "exit"
    /\ UNCHANGED <<gRoot, gConc, gPre, graph, seen, tasks, sem, wg, gCrash, gOrder, gOrder2>>
    /\ GraphFrame

\* the loop of ResolveDependencies is over; BuildGraph starts its loop over root
PreDone ==
    /\ gpc = "visit"
    /\ gRem = {}
    /\ seen = {}
    /\ gPre
    /\ ~gCrash
    /\ gRem' = DOMAIN gRoot
    /\ gPre' = FALSE
    /\ UNCHANGED <<gRoot, gConc, gpc, heap, rcache, mdCache, graph, seen, tasks, sem, wg,
                   gCrash, gOrder, gOrder2>>
    /\ GraphFrame

\* a goroutine is started for the key, whatever seen says
Spawn(name, spec) ==
    IF KeyOf(name, spec) \in DOMAIN tasks
    THEN Put(tasks, KeyOf(name, spec),
             [NewTask(name, spec) EXCEPT
                 !.starts = tasks[KeyOf(name, spec)].starts + 1,
                 !.lookups = tasks[KeyOf(name, spec)].lookups])
    ELSE Put(tasks, KeyOf(name, spec), NewTask(name, spec))

VisitTasks_IgnoresSeen(name, spec) == Spawn(name, spec)

\* visit(name, spec) lines 202-229: LoadOrStore, wg.Add(1), go func
VisitTasks(name, spec) ==
    IF KeyOf(name, spec) \in seen THEN tasks ELSE Spawn(name, spec)

VisitWg_NoAdd(name, spec) == wg

\* visit line 206: wg.Add(1) before the goroutine is started
VisitWg(name, spec) == IF KeyOf(name, spec) \in seen THEN wg ELSE wg + 1

\* BuildGraph lines 230-232: one iteration of the loop over root
RootVisit ==
    /\ gpc = "visit"
    /\ ~gPre
    /\ ~gCrash
    /\ gRem # {}
    /\ \E n \in gRem :
         /\ tasks' = VisitTasks(n, gRoot[n])
         /\ wg' = VisitWg(n, gRoot[n])
         /\ seen' = seen \cup {KeyOf(n, gRoot[n])}
         /\ gRem' = gRem \ {n}
         /\ gpc' = IF gRem = {n} THEN "wait" ELSE "visit"
    /\ UNCHANGED <<gRoot, gConc, gPre, heap, rcache, mdCache, graph, sem, gCrash,
                   gOrder, gOrder2>>
    /\ GraphFrame

\* some other goroutine is inside its write of r.cache
WriteInProgress(k) == \E o \in DOMAIN tasks : o # k /\ tasks[o].pc = "writing"

\* line 210: sem <- struct{}{}
TaskAcquire(k) ==
    /\ ~gCrash
    /\ tasks[k].pc = "spawned"
    /\ sem < gConc
    /\ sem' = sem + 1
    /\ tasks' = [tasks EXCEPT ![k].pc = "lookup"]
    /\ UNCHANGED <<gRoot, gConc, gPre, gpc, gRem, heap, rcache, mdCache, graph, seen, wg,
                   gCrash, gOrder, gOrder2>>
    /\ GraphFrame

\* resolveDependency lines 81-83: the read of r.cache, and on a hit the
\* return and <-sem
TaskLookup(k) ==
    /\ ~gCrash
    /\ tasks[k].pc = "lookup"
    /\ \E fatal \in {FALSE, WriteInProgress(k)} :
         IF fatal
         THEN /\ gCrash' = TRUE
              /\ tasks' = [tasks EXCEPT ![k].pc = "crashed"]
              /\ sem' = sem
         ELSE /\ gCrash' = FALSE
              /\ IF k \in DOMAIN rcache
                 THEN /\ tasks' = [tasks EXCEPT ![k].pc = "graph", ![k].dep = rcache[k]]
                      /\ sem' = sem - 1
                 ELSE /\ tasks' = [tasks EXCEPT ![k].pc = "fetch"]
                      /\ sem' = sem
    /\ UNCHANGED <<gRoot, gConc, gPre, gpc, gRem, heap, rcache, mdCache, graph, seen, wg,
                   gOrder, gOrder2>>
    /\ GraphFrame

\* getMetadataCached lines 164-170: registry.FetchMetadata is called when the
\* per-version file is not there
RegistryLookups(k) ==
    IF MdPath(tasks[k].name, NormalizedSpec[tasks[k].spec]) \in DOMAIN mdCache THEN 0 ELSE 1

\* resolveDependency lines 85-118: normalizeVersion, getMetadataCached, the
\* new Dependency; on an error the return, <-sem and wg.Done
TaskFetch(k) ==
    /\ ~gCrash
    /\ tasks[k].pc = "fetch"
    /\ \E r \in getMetadataCached(mdCache, tasks[k].name, NormalizedSpec[tasks[k].spec]) :
         /\ mdCache' = r.cache
         /\ IF r.ok
            THEN /\ heap' = Append(heap, NewDependency(tasks[k].name, tasks[k].spec, r.md))
                 /\ tasks' = [tasks EXCEPT ![k].pc = "store", ![k].dep = Len(heap) + 1,
                                           ![k].lookups = @ + RegistryLookups(k)]
                 /\ UNCHANGED <<sem, wg>>
            ELSE /\ heap' = heap
                 /\ tasks' = [tasks EXCEPT ![k].pc = "failed",
                                           ![k].lookups = @ + RegistryLookups(k)]
                 /\ sem' = sem - 1
                 /\ wg' = wg - 1
    /\ UNCHANGED <<gRoot, gConc, gPre, gpc, gRem, rcache, graph, seen, gCrash, gOrder, gOrder2>>
    /\ GraphFrame

\* resolveDependency line 120: the write of r.cache begins
TaskStoreBegin(k) ==
    /\ ~gCrash
    /\ tasks[k].pc = "store"
    /\ \E fatal \in {FALSE, WriteInProgress(k)} :
         IF fatal
         THEN /\ gCrash' = TRUE
              /\ tasks' = [tasks EXCEPT ![k].pc = "crashed"]
         ELSE /\ gCrash' = FALSE
              /\ tasks' = [tasks EXCEPT ![k].pc = "writing"]
    /\ UNCHANGED <<gRoot, gConc, gPre, gpc, gRem, heap, rcache, mdCache, graph, seen, sem, wg,
                   gOrder, gOrder2>>
    /\ GraphFrame

\* resolveDependency lines 120-122: the write ends, the return and <-sem
TaskStoreEnd(k) ==
    /\ ~gCrash
    /\ tasks[k].pc = "writing"
    /\ rcache' = Put(rcache, k, tasks[k].dep)
    /\ sem' = sem - 1
    /\ tasks' = [tasks EXCEPT ![k].pc = "graph"]
    /\ UNCHANGED <<gRoot, gConc, gPre, gpc, gRem, heap, mdCache, graph, seen, wg, gCrash,
                   gOrder, gOrder2>>
    /\ GraphFrame

\* BuildGraph lines 222-224: graph[name+"@"+dep.Resolved] = dep under mu
TaskGraph(k) ==
    /\ ~gCrash
    /\ tasks[k].pc = "graph"
    /\ graph' = Put(graph, KeyOf(tasks[k].name, heap[tasks[k].dep].Resolved), tasks[k].dep)
    /\ tasks' = [tasks EXCEPT ![k].pc = "children",
                              ![k].rem = DOMAIN heap[tasks[k].dep].RawDeps]
    /\ UNCHANGED <<gRoot, gConc, gPre, gpc, gRem, heap, rcache, mdCache, seen, sem, wg, gCrash,
                   gOrder, gOrder2>>
    /\ GraphFrame

\* BuildGraph lines 225-227: one iteration of the loop over dep.RawDeps
TaskVisit(k) ==
    /\ ~gCrash
    /\ tasks[k].pc = "children"
    /\ tasks[k].rem # {}
    /\ \E cn \in tasks[k].rem :
         LET cs == heap[tasks[k].dep].RawDeps[cn]
         IN  /\ tasks' = [VisitTasks(cn, cs) EXCEPT ![k].rem = @ \ {cn}]
             /\ wg' = VisitWg(cn, cs)
             /\ seen' = seen \cup {KeyOf(cn, cs)}
    /\ UNCHANGED <<gRoot, gConc, gPre, gpc, gRem, heap, rcache, mdCache, graph, sem, gCrash,
                   gOrder, gOrder2>>
    /\ GraphFrame

\* the goroutine ends: deferred wg.Done
TaskDone(k) ==
    /\ ~gCrash
    /\ tasks[k].pc = "children"
    /\ tasks[k].rem = {}
    /\ tasks' = [tasks EXCEPT ![k].pc = "done"]
    /\ wg' = wg - 1
    /\ UNCHANGED <<gRoot, gConc, gPre, gpc, gRem, heap, rcache, mdCache, graph, seen, sem,
                   gCrash, gOrder, gOrder2>>
    /\ GraphFrame

\* BuildGraph lines 233-234: wg.Wait returns, return graph, nil
GraphReturn ==
    /\ ~gCrash
    /\ gpc = "wait"
    /\ wg = 0
    /\ gpc' = "returned"
    /\ UNCHANGED <<gRoot, gConc, gPre, gRem, heap, rcache, mdCache, graph, seen, tasks, sem, wg,
                   gCrash, gOrder, gOrder2>>
    /\ GraphFrame

\* the values of the graph map
GraphValues == {graph[key] : key \in DOMAIN graph}

\* installFromPackageJSON line 164: order := TopoOrder(graph)
GraphTopo ==
    /\ ~gCrash
    /\ gpc = "returned"
    /\ \E iter \in Orders(GraphValues) :
         gOrder' = TopoOrderOn(1..Len(heap), iter, [d \in 1..Len(heap) |-> <<>>])
    /\ gpc' = "ordered"
    /\ UNCHANGED <<gRoot, gConc, gPre, gRem, heap, rcache, mdCache, graph, seen, tasks, sem, wg,
                   gCrash, gOrder2>>
    /\ GraphFrame

\* a second run on the same registry responses resolves the same graph and
\* calls TopoOrder on it; the map is iterated in an order of its own
GraphTopoAgain ==
    /\ ~gCrash
    /\ gpc = "ordered"
    /\ \E iter \in Orders(GraphValues) :
         gOrder2' = TopoOrderOn(1..Len(heap), iter, [d \in 1..Len(heap) |-> <<>>])
    /\ gpc' = "ordered2"
    /\ UNCHANGED <<gRoot, gConc, gPre, gRem, heap, rcache, mdCache, graph, seen, tasks, sem, wg,
                   gCrash, gOrder>>
    /\ GraphFrame

TaskStep == \E k \in DOMAIN tasks :
    \/ TaskAcquire(k)
    \/ TaskLookup(k)
    \/ TaskFetch(k)
    \/ TaskStoreBegin(k)
    \/ TaskStoreEnd(k)
    \/ TaskGraph(k)
    \/ TaskVisit(k)
    \/ TaskDone(k)

GraphNext ==
    \/ PreResolve
    \/ PreDone
    \/ RootVisit
    \/ TaskStep
    \/ GraphReturn
    \/ GraphTopo
    \/ GraphTopoAgain

(***************************************************************************)
(* linkPackageBinaries, the case of an object-valued "bin"                 *)
(***************************************************************************)
RECURSIVE BinLoop(_, _, _, _, _)
\* linkPackageBinaries lines 272-285: the loop over the keys of v, in the
\* order range visits them
BinLoop(f, pkgName, v, order, i) ==
    IF i > Len(order) THEN f
    ELSE LET name == order[i]
             rel  == v[name]
         IN  IF rel = <<>> THEN BinLoop(f, pkgName, v, order, i + 1)
             ELSE LET f1 == createBinShimNamed(f, pkgName, pkgName, rel)
                      f2 == IF name # pkgName
                            THEN createBinShimNamed(f1, name, pkgName, rel)
                            ELSE f1
                  IN  BinLoop(f2, pkgName, v, order, i + 1)

\* linkPackageBinaries lines 265-289 for raw.Bin of type map[string]any
linkPackageBinariesObject(f, pkgName, v, order) == BinLoop(f, pkgName, v, order, 1)

\* the keys and values of the "bin" objects of this harness ("" stands for
\* an empty or non-string value)
BinKeys == {NameA, <<"x">>, <<"y">>}

BinPaths == {<<>>, <<"p.js">>, <<"q.js">>}

BinObjects == UNION {[K -> BinPaths] : K \in SUBSET BinKeys}

BinInit ==
    /\ bPkg = NameA
    /\ bBin \in BinObjects
    /\ bOrder \in Orders(DOMAIN bBin)
    /\ bpc = "start"
    /\ fs = EmptyFS

BinPark ==
    /\ bPkg = <<>>
    /\ bBin = EmptyMap
    /\ bOrder = <<>>
    /\ bpc = "parked"

BinFrame == UNCHANGED <<normVars, tarVars, callVars, pipeVars, resVars, topoVars, graphVars,
    idxVars,
    httpVars,
    markerVars,
    locVars>>

\* one call of linkPackageBinaries
LinkBinaries ==
    /\ bpc = "start"
    /\ fs' = linkPackageBinariesObject(fs, bPkg, bBin, bOrder)
    /\ bpc' = "done"
    /\ UNCHANGED <<bPkg, bBin, bOrder>>
    /\ BinFrame

(***************************************************************************)
(* The registry index cache: getRegistryResponseCached and the resolver's  *)
(* per-version cache, for one package and concurrent callers.  The index   *)
(* the registry serves has a number; document i lists versions 1..i and    *)
(* has "latest" = i.  A file is a sequence of bytes: document i is i bytes *)
(* that all say i, so that a truncated or mixed file does not parse.       *)
(***************************************************************************)
Callers == 1..NumCallers

\* the body the registry sends for index i
Doc(i) == [k \in 1..i |-> i]

\* a 200 body that is not a registry document (json.Unmarshal fails on it)
Garbled == <<0>>

\* the bytes of the response a caller holds
BodyOf(c) == IF c.bad THEN Garbled ELSE Doc(c.body)

\* json.Unmarshal(b, &rr) == nil
Parses(b) == b # <<>> /\ \A k \in 1..Len(b) : b[k] = Len(b)

AbsentFile == [exists |-> FALSE, bytes |-> <<>>]

FileOf(b) == [exists |-> TRUE, bytes |-> b]

\* os.WriteFile step 1: OpenFile(name, O_WRONLY|O_CREATE|O_TRUNC)
Truncated(f) == FileOf(<<>>)

\* os.WriteFile step 2: f.Write(data) at offset 0 of the file as it is now
Written(f, data) ==
    FileOf(data \o SubSeq(f.bytes, Len(data) + 1, Len(f.bytes)))

XErr == [ok |-> FALSE, v |-> 0]

XOk(v) == [ok |-> TRUE, v |-> v]

\* os.ReadFile(dataPath) followed by json.Unmarshal
ReadDocument(f) ==
    IF f.exists /\ Parses(f.bytes) THEN XOk(Len(f.bytes)) ELSE XErr

FallbackResult_AlwaysErr(f) == XErr

\* getRegistryResponseCached lines 72-80 and 113-121: the document on disk
\* if it reads and parses, else the error
FallbackResult(f) == ReadDocument(f)

IdleCaller ==
    [pc |-> "idle", op |-> "none", etag |-> 0, resp |-> "none", body |-> 0,
     bad |-> FALSE, saw |-> AbsentFile, ret |-> XErr, req |-> "none", start |-> 0,
     had |-> FALSE]

IdxInit ==
    /\ xServer = 1
    /\ \E warm \in BOOLEAN :
          IF warm
          THEN xData = FileOf(Doc(1)) /\ xMeta = 1 /\ xMd \in {0, 1}
          ELSE xData = AbsentFile /\ xMeta = 0 /\ xMd = 0
    /\ xc = [c \in Callers |-> IdleCaller]

IdxPark ==
    /\ xServer = 0
    /\ xData = AbsentFile
    /\ xMeta = 0
    /\ xMd = 0
    /\ xc = [c \in Callers |-> [IdleCaller EXCEPT !.pc = "parked"]]

IdxFrame == UNCHANGED <<normVars, tarVars, fs, callVars, pipeVars, resVars, topoVars, graphVars,
    binVars,
    httpVars,
    markerVars,
    locVars>>

\* the registry publishes a new version: "latest" moves
ServerPublish ==
    /\ xServer >= 1
    /\ xServer < MaxIndex
    /\ xServer' = xServer + 1
    /\ UNCHANGED <<xData, xMeta, xMd, xc>>
    /\ IdxFrame

\* where a caller goes when getRegistryResponseCached returns r
IndexReturns(c, r) ==
    [xc[c] EXCEPT !.ret = r, !.pc = IF xc[c].op = "resolve" THEN "store" ELSE "done"]

\* a caller starts getRegistryResponseCached(name) ("index") or
\* r.getMetadataCached(name, "latest") ("resolve")
Call(c, op) ==
    /\ xc[c].pc \in {"idle", "done"}
    /\ xc' = [xc EXCEPT ![c] = [IdleCaller EXCEPT !.op = op, !.start = xServer,
                                  !.had = ReadDocument(xData).ok,
                                  !.pc = IF op = "resolve" THEN "lookup" ELSE "meta"]]
    /\ UNCHANGED <<xServer, xData, xMeta, xMd>>
    /\ IdxFrame

\* getMetadataCached: the per-version file is returned when it reads and parses
MdLookup(c) ==
    /\ xc[c].pc = "lookup"
    /\ xc' = [xc EXCEPT ![c] = IF xMd # 0
                                THEN [@ EXCEPT !.ret = XOk(xMd), !.pc = "done"]
                                ELSE [@ EXCEPT !.pc = "meta"]]
    /\ UNCHANGED <<xServer, xData, xMeta, xMd>>
    /\ IdxFrame

\* getRegistryResponseCached: read the sidecar
ReadMeta(c) ==
    /\ xc[c].pc = "meta"
    /\ xc' = [xc EXCEPT ![c] = [@ EXCEPT !.etag = xMeta, !.pc = "request"]]
    /\ UNCHANGED <<xServer, xData, xMeta, xMd>>
    /\ IdxFrame

\* what the registry answers to a request carrying If-None-Match: etag
StatusFor(etag) == IF etag # 0 /\ etag = xServer THEN "304" ELSE "200"

\* HTTPClient.Do(req): a network error, a status other than 200 and 304, the
\* registry's answer, or a 200 whose body does not parse
DoRequest(c, outcome) ==
    /\ xc[c].pc = "request"
    /\ xc' = [xc EXCEPT ![c] =
                 IF outcome = "answer"
                 THEN [@ EXCEPT !.resp = StatusFor(xc[c].etag), !.body = xServer,
                                !.req = "ok", !.pc = "answered"]
                 ELSE IF outcome = "garbled"
                 THEN [@ EXCEPT !.resp = "200", !.body = xServer, !.bad = TRUE,
                                !.req = "ok", !.pc = "answered"]
                 ELSE [@ EXCEPT !.resp = outcome, !.req = "failed", !.pc = "answered"]]
    /\ UNCHANGED <<xServer, xData, xMeta, xMd>>
    /\ IdxFrame

\* network error or unexpected status: fall back to the document on disk
Fallback(c) ==
    /\ xc[c].pc = "answered"
    /\ xc[c].resp \in {"neterr", "500"}
    /\ xc' = [xc EXCEPT ![c] = [IndexReturns(c, FallbackResult(xData)) EXCEPT !.saw = xData]]
    /\ UNCHANGED <<xServer, xData, xMeta, xMd>>
    /\ IdxFrame

\* 304: read the document on disk
NotModified(c) ==
    /\ xc[c].pc = "answered"
    /\ xc[c].resp = "304"
    /\ xc' = [xc EXCEPT ![c] = [IndexReturns(c, ReadDocument(xData)) EXCEPT !.saw = xData]]
    /\ UNCHANGED <<xServer, xData, xMeta, xMd>>
    /\ IdxFrame

\* 200: os.WriteFile(dataPath, body) opens the file with O_TRUNC ...
TruncateData(c) ==
    /\ xc[c].pc = "answered"
    /\ xc[c].resp = "200"
    /\ xData' = Truncated(xData)
    /\ xc' = [xc EXCEPT ![c] = [@ EXCEPT !.pc = "writing"]]
    /\ UNCHANGED <<xServer, xMeta, xMd>>
    /\ IdxFrame

\* ... and then writes the body
WriteData(c) ==
    /\ xc[c].pc = "writing"
    /\ xData' = Written(xData, BodyOf(xc[c]))
    /\ xc' = [xc EXCEPT ![c] = [@ EXCEPT !.pc = "sidecar"]]
    /\ UNCHANGED <<xServer, xMeta, xMd>>
    /\ IdxFrame

\* os.WriteFile(metaPath, mb) opens the sidecar with O_TRUNC ...
TruncateMeta(c) ==
    /\ xc[c].pc = "sidecar"
    /\ xMeta' = 0
    /\ xc' = [xc EXCEPT ![c] = [@ EXCEPT !.pc = "sidecar2"]]
    /\ UNCHANGED <<xServer, xData, xMd>>
    /\ IdxFrame

\* ... writes the ETag of the response, and the call returns the parsed body
WriteMeta(c) ==
    /\ xc[c].pc = "sidecar2"
    /\ xMeta' = xc[c].body
    /\ xc' = [xc EXCEPT ![c] = IndexReturns(c, ReadDocument(FileOf(BodyOf(xc[c]))))]
    /\ UNCHANGED <<xServer, xData, xMd>>
    /\ IdxFrame

\* FetchMetadata picks the entry of "latest"; getMetadataCached stores it in
\* the per-version file and returns it
StoreMd(c) ==
    /\ xc[c].pc = "store"
    /\ xMd' = IF xc[c].ret.ok THEN xc[c].ret.v ELSE xMd
    /\ xc' = [xc EXCEPT ![c] = [@ EXCEPT !.pc = "done"]]
    /\ UNCHANGED <<xServer, xData, xMeta>>
    /\ IdxFrame

CallerStep(c) ==
    \/ \E op \in {"index", "resolve"} : Call(c, op)
    \/ MdLookup(c)
    \/ ReadMeta(c)
    \/ \E outcome \in {"neterr", "500", "answer", "garbled"} : DoRequest(c, outcome)
    \/ Fallback(c)
    \/ NotModified(c)
    \/ TruncateData(c)
    \/ WriteData(c)
    \/ TruncateMeta(c)
    \/ WriteMeta(c)
    \/ StoreMd(c)

IdxNext ==
    \/ ServerPublish
    \/ \E c \in Callers : CallerStep(c)

(***************************************************************************)
(* The registry client's HTTP requests, counted.  Index clients are the    *)
(* goroutines inside getRegistryResponseCached; streams are the tarball    *)
(* requests of StreamTarball.  All go through the shared HTTPClient, whose *)
(* Transport allows MaxConnsPerHost connections to one host and attempts   *)
(* HTTP/2: over HTTP/1.1 a request occupies a connection until its body is *)
(* read or closed, over HTTP/2 the requests share connections.             *)
(***************************************************************************)
\* len(httpSem): the goroutines between "httpSem <- struct{}{}" and "<-httpSem"
SemHeld == hTok + hSent

\* connections in use on the registry's host over HTTP/1.1
ConnsInUse == hSent + hBody + hStream

\* requests sent and not yet completed: waiting for the response or
\* transferring its body
InFlight == hSent + hBody + hStream

\* the Transport hands a request a connection
ConnAvailable == hProto = "h2" \/ ConnsInUse < MaxConnsPerHost

HttpInit ==
    /\ hProto \in {"h1", "h2"}
    /\ hTok = 0
    /\ hSent = 0
    /\ hBody = 0
    /\ hStream = 0

HttpPark ==
    /\ hProto = "parked"
    /\ hTok = 0
    /\ hSent = 0
    /\ hBody = 0
    /\ hStream = 0

HttpFrame == UNCHANGED <<normVars, tarVars, fs, callVars, pipeVars, resVars, topoVars, graphVars,
    binVars, idxVars,
    markerVars,
    locVars>>

\* an index client reaches "httpSem <- struct{}{}" and the send goes through
SemAcquire ==
    /\ hProto \in {"h1", "h2"}
    /\ hTok + hSent + hBody < NumClients
    /\ SemHeld < HttpSemCap
    /\ hTok' = hTok + 1
    /\ UNCHANGED <<hProto, hSent, hBody, hStream>>
    /\ HttpFrame

\* HTTPClient.Do(req): the request goes out on a connection
SendRequest ==
    /\ hTok > 0
    /\ ConnAvailable
    /\ hTok' = hTok - 1
    /\ hSent' = hSent + 1
    /\ UNCHANGED <<hProto, hBody, hStream>>
    /\ HttpFrame

\* Do returns and "<-httpSem" runs: with a 200 the body is still to be read
\* (io.ReadAll), otherwise the call is over
DoReturns(withBody) ==
    /\ hSent > 0
    /\ hSent' = hSent - 1
    /\ hBody' = IF withBody THEN hBody + 1 ELSE hBody
    /\ UNCHANGED <<hProto, hTok, hStream>>
    /\ HttpFrame

\* io.ReadAll(resp.Body) is done and the call returns
BodyRead ==
    /\ hBody > 0
    /\ hBody' = hBody - 1
    /\ UNCHANGED <<hProto, hTok, hSent, hStream>>
    /\ HttpFrame

\* StreamTarball: HTTPClient.Do(req) with no token of httpSem
StreamStart ==
    /\ hProto \in {"h1", "h2"}
    /\ hStream < NumStreams
    /\ ConnAvailable
    /\ hStream' = hStream + 1
    /\ UNCHANGED <<hProto, hTok, hSent, hBody>>
    /\ HttpFrame

\* the caller of StreamTarball closes the body
StreamClose ==
    /\ hStream > 0
    /\ hStream' = hStream - 1
    /\ UNCHANGED <<hProto, hTok, hSent, hBody>>
    /\ HttpFrame

HttpNext ==
    \/ SemAcquire
    \/ SendRequest
    \/ \E withBody \in BOOLEAN : DoReturns(withBody)
    \/ BodyRead
    \/ StreamStart
    \/ StreamClose

(***************************************************************************)
(* The marker file on its own: writeIntegrity produces its bytes, the       *)
(* process may stop while os.WriteFile is writing them, and the next        *)
(* InstallPackage reads what is on disk and compares it with the version    *)
(* it was asked for.                                                        *)
(***************************************************************************)
MarkerNames == {NameA, NameVersion}

MarkerVersions == {V100, V110}

MarkerHashes == {<<>>, <<"h">>}

MarkerRequests == {V100, V110, <<>>}

\* readIntegrity on the bytes of an existing marker file, as its caller sees
\* it: the version string, "" on any error
ReadMarkerBytes(bs) ==
    LET r == ParseIntegrity(bs) IN IF r.ok THEN r.version ELSE <<>>

MarkerInit ==
    /\ kName \in MarkerNames
    /\ kVersion \in MarkerVersions
    /\ kHash \in MarkerHashes
    /\ kBytes = <<>>
    /\ kTorn = FALSE
    /\ kReq = <<>>
    /\ kRead = <<>>
    /\ kSkip = FALSE
    /\ kpc = "start"

MarkerPark ==
    /\ kName = <<>>
    /\ kVersion = <<>>
    /\ kHash = <<>>
    /\ kBytes = <<>>
    /\ kTorn = FALSE
    /\ kReq = <<>>
    /\ kRead = <<>>
    /\ kSkip = FALSE
    /\ kpc = "parked"

MarkerFrame == UNCHANGED <<normVars, tarVars, fs, callVars, pipeVars, resVars, topoVars, graphVars,
    binVars, idxVars, httpVars,
    locVars>>

\* writeIntegrity(dir, name, version, hash) runs to its end
MarkerWrite ==
    /\ kpc = "start"
    /\ kBytes' = FormatIntegrity(kName, kVersion, kHash)
    /\ kTorn' = FALSE
    /\ kpc' = "ondisk"
    /\ UNCHANGED <<kName, kVersion, kHash, kReq, kRead, kSkip>>
    /\ MarkerFrame

\* the process stops inside os.WriteFile: the file has been created or
\* truncated and a proper prefix of the bytes has reached it
MarkerWriteStops ==
    /\ kpc = "start"
    /\ \E n \in 0..(Len(FormatIntegrity(kName, kVersion, kHash)) - 1) :
          kBytes' = SubSeq(FormatIntegrity(kName, kVersion, kHash), 1, n)
    /\ kTorn' = TRUE
    /\ kpc' = "ondisk"
    /\ UNCHANGED <<kName, kVersion, kHash, kReq, kRead, kSkip>>
    /\ MarkerFrame

\* InstallPackage lines 47-51 on the slot that holds this marker file
MarkerCheck ==
    /\ kpc = "ondisk"
    /\ \E req \in MarkerRequests :
          /\ kReq' = req
          /\ kRead' = ReadMarkerBytes(kBytes)
          /\ kSkip' = SkipMatch(ReadMarkerBytes(kBytes), req)
    /\ kpc' = "checked"
    /\ UNCHANGED <<kName, kVersion, kHash, kBytes, kTorn>>
    /\ MarkerFrame

MarkerNext ==
    \/ MarkerWrite
    \/ MarkerWriteStops
    \/ MarkerCheck

(***************************************************************************)
(* Cache locations: the per-version metadata file of the resolver and the  *)
(* extract path of the cache package, computed for two keys.               *)
(***************************************************************************)
LocNames ==
    {<<"@", "a", "/", "b", "-", "c">>, <<"@", "a", "-", "b", "/", "c">>,
     <<"a">>, <<"a", "-", "b">>, <<"b">>}

LocVersions == {<<"1">>, <<"2">>, <<"1", "-", "2">>}

LocKeys == LocNames \X LocVersions

\* GetExtractPath(pkgName, version) below the extract directory
GetExtractPath(pkgName, version) == formatDirname(pkgName, version)

LocInit ==
    /\ qA \in LocKeys
    /\ qB \in LocKeys
    /\ qPaths = [mdA |-> <<>>, mdB |-> <<>>, exA |-> <<>>, exB |-> <<>>]
    /\ qpc = "start"

LocPark ==
    /\ qA = <<<<>>, <<>>>>
    /\ qB = <<<<>>, <<>>>>
    /\ qPaths = [mdA |-> <<>>, mdB |-> <<>>, exA |-> <<>>, exB |-> <<>>]
    /\ qpc = "parked"

LocFrame == UNCHANGED <<normVars, tarVars, fs, callVars, pipeVars, resVars, topoVars, graphVars,
    binVars, idxVars, httpVars, markerVars>>

\* the file names the resolver and the cache derive for the two keys
LocCompute ==
    /\ qpc = "start"
    /\ qPaths' = [mdA |-> MdPath(qA[1], qA[2]), mdB |-> MdPath(qB[1], qB[2]),
                  exA |-> GetExtractPath(qA[1], qA[2]), exB |-> GetExtractPath(qB[1], qB[2])]
    /\ qpc' = "done"
    /\ UNCHANGED <<qA, qB>>
    /\ LocFrame

(***************************************************************************)
(* Harness for normalizeVersion: the specifier is an input                 *)
(***************************************************************************)
SpecChars == {"^", "~", ">", "<", "=", "1", ".", "x", "*", " "}

SpecInputs == SeqsUpTo(SpecChars, MaxSpecLen) \cup {STR_latest}

NormInit ==
    /\ nSpec \in SpecInputs
    /\ nOnce = <<"?">>
    /\ nTwice = <<"?">>
    /\ npc = "start"

NormPark ==
    /\ nSpec = <<>>
    /\ nOnce = <<"?">>
    /\ nTwice = <<"?">>
    /\ npc = "parked"

\* what a step of this harness leaves alone
NormFrame == UNCHANGED <<tarVars, fs, callVars, pipeVars, resVars, topoVars, graphVars,
    binVars,
    idxVars,
    httpVars,
    markerVars,
    locVars>>

NormalizeOnce ==
    /\ npc = "start"
    /\ nOnce' = normalizeVersion(nSpec)
    /\ npc' = "once"
    /\ UNCHANGED <<nSpec, nTwice>>
    /\ NormFrame

NormalizeTwice ==
    /\ npc = "once"
    /\ nTwice' = normalizeVersion(nOnce)
    /\ npc' = "twice"
    /\ UNCHANGED <<nSpec, nOnce>>
    /\ NormFrame

NormNext == NormalizeOnce \/ NormalizeTwice

InitNorm == NormInit /\ TarPark /\ InstallPark /\ PipePark /\ ResPark /\ TopoPark /\ GraphPark /\ BinPark /\ IdxPark /\ HttpPark /\ MarkerPark /\ LocPark

SpecNorm == InitNorm /\ [][NormNext]_vars

InitTar == TarInit /\ NormPark /\ InstallPark /\ PipePark /\ ResPark /\ TopoPark /\ GraphPark /\ BinPark /\ IdxPark /\ HttpPark /\ MarkerPark /\ LocPark

SpecTar == InitTar /\ [][ExtractStep]_vars

InitInstall == InstallInit /\ NormPark /\ TarPark /\ PipePark /\ ResPark /\ TopoPark /\ GraphPark /\ BinPark /\ IdxPark /\ HttpPark /\ MarkerPark /\ LocPark

SpecInstall == InitInstall /\ [][InstallNext]_vars

SpecInstallStop == InitInstall /\ [][InstallStopNext]_vars

InitPipe == PipeInit /\ InstallPark /\ NormPark /\ TarPark /\ ResPark /\ TopoPark /\ GraphPark /\ BinPark /\ IdxPark /\ HttpPark /\ MarkerPark /\ LocPark

SpecPipe == InitPipe /\ [][PipeNext]_vars

\* every worker goroutine that can take a step eventually takes one
SpecPipeFair == InitPipe /\ [][PipeNext]_vars /\ WF_vars(PipeNext)

InitRes == ResInit /\ NormPark /\ TarPark /\ InstallPark /\ PipePark /\ TopoPark /\ GraphPark /\ BinPark /\ IdxPark /\ HttpPark /\ MarkerPark /\ LocPark

SpecRes == InitRes /\ [][ResNext]_vars

InitTopo == TopoInit /\ NormPark /\ TarPark /\ InstallPark /\ PipePark /\ ResPark /\ GraphPark /\ BinPark /\ IdxPark /\ HttpPark /\ MarkerPark /\ LocPark

SpecTopo == InitTopo /\ [][TopoNext]_vars

InitBin ==
    BinInit /\ NormPark /\ TarPark /\ InstallPark /\ PipePark /\ ResPark /\ TopoPark /\ GraphPark /\ IdxPark /\ HttpPark /\ MarkerPark /\ LocPark

SpecBin == InitBin /\ [][LinkBinaries]_vars

InitIdx ==
    IdxInit /\ NormPark /\ TarPark /\ InstallPark /\ PipePark /\ ResPark /\ TopoPark /\ GraphPark
        /\ BinPark /\ HttpPark /\ MarkerPark /\ LocPark

SpecIdx == InitIdx /\ [][IdxNext]_vars

InitHttp ==
    HttpInit /\ NormPark /\ TarPark /\ InstallPark /\ PipePark /\ ResPark /\ TopoPark /\ GraphPark
        /\ BinPark /\ IdxPark /\ MarkerPark /\ LocPark

SpecHttp == InitHttp /\ [][HttpNext]_vars

InitMarker ==
    MarkerInit /\ NormPark /\ TarPark /\ InstallPark /\ PipePark /\ ResPark /\ TopoPark /\ GraphPark
        /\ BinPark /\ IdxPark /\ HttpPark /\ LocPark

SpecMarker == InitMarker /\ [][MarkerNext]_vars

InitLoc ==
    LocInit /\ NormPark /\ TarPark /\ InstallPark /\ PipePark /\ ResPark /\ TopoPark /\ GraphPark
        /\ BinPark /\ IdxPark /\ HttpPark /\ MarkerPark

SpecLoc == InitLoc /\ [][LocCompute]_vars

InitGraph ==
    GraphInit /\ NormPark /\ TarPark /\ InstallPark /\ PipePark /\ ResPark /\ TopoPark /\ BinPark /\ IdxPark /\ HttpPark /\ MarkerPark /\ LocPark

SpecGraph == InitGraph /\ [][GraphNext]_vars

\* every goroutine that can take a step eventually takes one
SpecGraphFair == InitGraph /\ [][GraphNext]_vars /\ WF_vars(GraphNext)

\* C10: normalizeVersion is idempotent: normalising the result of a
\* normalisation gives that result again, for every specifier.
C10_NormalizeIdempotent == npc = "twice" => nTwice = nOnce

\* C8: extraction never creates a file or directory outside the destination
\* directory, whatever the entry names are.
C8_NoPathEscape ==
    /\ \A d \in tDirs : d \in Prefixes(DestDir) \/ IsUnder(d, DestDir)
    /\ \A f \in tFiles : IsUnder(f, DestDir)

\* the first component of an entry name, after a leading "./" or "/"
FirstComponent(path) ==
    LET parts == Split(path)
        idx   == PackageIndex(parts)
    IN  IF idx = 0 THEN <<>> ELSE parts[idx]

\* C9: cleanTarPath strips only a leading "package" component; any other
\* first component is preserved in the result.
C9_OnlyPackageStripped ==
    (tLast.type # "none" /\ FirstComponent(tLast.name) \notin {<<>>, <<"package">>})
        => FirstComponent(tLast.clean) = FirstComponent(tLast.name)

(***************************************************************************)
(* Installer.InstallPackage: idempotency and the CAS                       *)
(***************************************************************************)

\* os.Stat(node_modules/<name>) succeeds
SlotExists(f, name) == ResolveSlot(f, name) # NoLoc

\* the slot's marker file exists and its version field is v
SlotMarkerIs(f, name, v) ==
    /\ SlotExists(f, name)
    /\ DirAt(f, ResolveSlot(f, name)).marker.present
    /\ DirAt(f, ResolveSlot(f, name)).marker.version = v

\* C1: a call InstallPackage(name, version) made when the slot exists and
\* its marker's version field equals the requested version returns that
\* version, issues no registry or tarball request, extracts nothing and
\* leaves the whole disk (project tree, extract cache, CAS, global
\* directory) as it was.
C1_SkipIsNoop ==
    [][(/\ ipc = "idle"
        /\ iStep' = "check"
        /\ SlotMarkerIs(fs, iName', iVer'))
       => (/\ fs' = fs
           /\ iIO' = NoIO
           /\ iRet' = RetOk(iVer')
           /\ ipc' = "idle")]_vars

\* C2: after InstallPackage(name, version) has succeeded the slot's marker
\* version equals the requested version, and a second call with the same
\* inputs does no network I/O and writes nothing to disk.
C2_InstallIdempotent ==
    /\ []((ipc = "idle" /\ iRet.kind = "ok")
            => SlotMarkerIs(fs, iName, iVer))
    /\ [][(/\ ipc = "idle"
           /\ iRet.kind = "ok"
           /\ iStep' = "check"
           /\ iName' = iName
           /\ iVer' = iVer)
          => (fs' = fs /\ iIO' = NoIO /\ ipc' = "idle")]_vars

\* C6: once the CAS directory of a hash exists, no step of InstallPackage
\* (promotion, linking, shims, marker) creates, deletes or changes a file in it.
C6_CasAppendOnly ==
    [][iStep' \in {"check", "fetch", "link", "marker"}
       => \A h \in DOMAIN fs.cas : h \in DOMAIN fs'.cas /\ fs'.cas[h] = fs.cas[h]]_vars

(***************************************************************************)
(* Installer.InstallPipeline                                               *)
(***************************************************************************)

\* the slot of name exists and its marker's version is the version the
\* package list asks for
SlotUpToDate(f, name) ==
    \E i \in 1..Len(pPkgs) :
        pPkgs[i].Name = name /\ SlotMarkerIs(f, name, pPkgs[i].Version)

\* C3: when InstallPipeline is run again on the same package list after a
\* run that returned nil, it downloads no tarball, and it writes nothing
\* under a slot whose marker already matches the package's version.
C3_RerunDoesNoWork ==
    /\ []((pRun >= 2 /\ pPrev = "nil") => pDown = 0)
    /\ [][(pRun >= 2 /\ pPrev = "nil")
          => \A n \in DOMAIN fs.nm :
               SlotUpToDate(fs, n)
               => /\ Get(fs'.nm, n) = fs.nm[n]
                  /\ SlotExists(fs', n)
                  /\ DirAt(fs', ResolveSlot(fs', n)) = DirAt(fs, ResolveSlot(fs, n))]_vars

\* the tarball whose stream gave the CAS key h
TarballOfKey(h) ==
    CHOOSE t \in Tarballs : \E c \in ConsumedPrefixes(t) : Sha256(c) = h

\* C4: at every moment of a pipeline run, a CAS package directory that
\* exists (cas.Exists true) holds the complete extracted tree of its
\* tarball; it is never empty or partial.
C4_CasAtomic ==
    \A h \in DOMAIN fs.cas :
        CasExists(fs, h) => fs.cas[h].files = Tree(TarballOfKey(h))

\* C5: when two download workers have extracted the same tarball and both
\* have run the promote sequence for the same hash, the CAS directory of
\* that hash exists and holds the complete tree; and a worker that has
\* finished its job has no scratch directory left.
C5_ConcurrentPromote ==
    /\ \A w1 \in DlWorkers, w2 \in DlWorkers :
         (/\ w1 # w2
          /\ dl[w1].pc = "promoted"
          /\ dl[w2].pc = "promoted"
          /\ dl[w1].hash = dl[w2].hash)
         => (/\ CasExists(fs, dl[w1].hash)
             /\ fs.cas[dl[w1].hash].files = Tree(dl[w1].job.Tarball))
    /\ \A w \in DlWorkers : dl[w].pc = "idle" => ~dl[w].tmp.exists

\* C7: once a download worker has fetched and extracted a tarball, the hash
\* it uses as the CAS key is the SHA-256 of the whole raw stream of that
\* tarball, and after EnsureDirs the CAS path of that hash is a directory.
C7_KeyIsDigestOfStream ==
    \A w \in DlWorkers :
        /\ dl[w].pc \in {"hashed", "ensured", "promoted"}
             => dl[w].hash = Sha256(RawStream(dl[w].job.Tarball))
        /\ dl[w].pc \in {"ensured", "promoted"} => CasExists(fs, dl[w].hash)

(***************************************************************************)
(* registry: version resolution                                            *)
(***************************************************************************)

\* the "."-separated segments of a version string
RECURSIVE DotSegmentsFrom(_, _, _)
DotSegmentsFrom(s, i, cur) ==
    IF i > Len(s) THEN <<cur>>
    ELSE IF s[i] = "." THEN <<cur>> \o DotSegmentsFrom(s, i + 1, <<>>)
    ELSE DotSegmentsFrom(s, i + 1, Append(cur, s[i]))

DotSegments(s) == DotSegmentsFrom(s, 1, <<>>)

IsNumber(seg) == seg # <<>> /\ \A i \in 1..Len(seg) : seg[i] \in Digits

\* the integer a digit string denotes
RECURSIVE NatOf(_)
NatOf(seg) ==
    IF seg = <<>> THEN 0
    ELSE 10 * NatOf(SubSeq(seg, 1, Len(seg) - 1)) + DigitVal(seg[Len(seg)])

\* a purely numeric MAJOR.MINOR.PATCH key
IsNumericKey(k) ==
    LET segs == DotSegments(k)
    IN  Len(segs) = 3 /\ \A i \in 1..3 : IsNumber(segs[i])

TripleOf(k) == [i \in 1..3 |-> NatOf(DotSegments(k)[i])]

TripleLeq(a, b) ==
    \/ a[1] < b[1]
    \/ a[1] = b[1] /\ a[2] < b[2]
    \/ a[1] = b[1] /\ a[2] = b[2] /\ a[3] <= b[3]

\* the numeric keys of K whose leading segments are the numbers pre
KeysWithPrefix(K, pre) ==
    {k \in K : IsNumericKey(k) /\ \A i \in 1..Len(pre) : TripleOf(k)[i] = pre[i]}

\* the keys of K with the greatest triple among those with prefix pre
GreatestWithPrefix(K, pre) ==
    {k \in KeysWithPrefix(K, pre) :
        \A m \in KeysWithPrefix(K, pre) : TripleLeq(TripleOf(m), TripleOf(k))}

\* a specifier that is an operator followed by a three-segment version
IsOperatorExact(spec) ==
    /\ Len(spec) > 1
    /\ spec[1] \in {"^", "~"}
    /\ IsNumericKey(Tail(spec))

\* C11: an operator-prefixed three-segment specifier (^1.2.0) resolves to
\* the stripped version when it is a key of the registry document, and
\* otherwise to the greatest key with the same major.minor when there is one
\* (versions {1.0.0, 1.2.3, 1.2.9, 2.0.0}: ^1.2.0 resolves to 1.2.9).
C11_OperatorSpecFallsBack ==
    (rpc = "fetch" /\ IsOperatorExact(rSpec))
    => LET v   == Tail(rSpec)
           pre == <<TripleOf(v)[1], TripleOf(v)[2]>>
       IN  IF v \in rKeys THEN rOut = [ok |-> TRUE, Version |-> v]
           ELSE KeysWithPrefix(rKeys, pre) # {}
                => (rOut.ok /\ rOut.Version \in GreatestWithPrefix(rKeys, pre))

\* a one- or two-segment numeric prefix, possibly written with .x or .*
PrefixOf(spec) ==
    LET s == IF Len(spec) > 2 /\ SubSeq(spec, Len(spec) - 1, Len(spec)) \in {<<".", "x">>, <<".", "*">>}
             THEN SubSeq(spec, 1, Len(spec) - 2) ELSE spec
    IN  DotSegments(s)

IsPrefixSpec(spec) ==
    /\ Len(PrefixOf(spec)) \in {1, 2}
    /\ \A i \in 1..Len(PrefixOf(spec)) : IsNumber(PrefixOf(spec)[i])

PrefixNumbers(spec) == [i \in 1..Len(PrefixOf(spec)) |-> NatOf(PrefixOf(spec)[i])]

\* C12: for a one- or two-segment numeric prefix resolveVersionFromMap
\* returns a numeric key with the greatest (major, minor, patch) among the
\* keys whose leading segments equal the prefix, and "" when no key matches;
\* keys that are not purely numeric are never returned.
C12_PrefixResolvesToGreatest ==
    (rpc = "prefix" /\ IsPrefixSpec(rSpec))
    => IF KeysWithPrefix(rKeys, PrefixNumbers(rSpec)) = {}
       THEN rOut = [ok |-> FALSE, Version |-> <<>>]
       ELSE rOut.ok /\ rOut.Version \in GreatestWithPrefix(rKeys, PrefixNumbers(rSpec))

\* prefix 1.2 over {1.2.0, 1.2.9, 1.3.0} has given 1.2.9
C12_Witness ==
    /\ rpc = "prefix"
    /\ rSpec = <<"1", ".", "2">>
    /\ rKeys = {V120, V129, V130}
    /\ rOut = [ok |-> TRUE, Version |-> V129]

(***************************************************************************)
(* resolver: TopoOrder                                                     *)
(***************************************************************************)

\* C15: the sequence TopoOrder returns holds every node of the graph map
\* exactly once and no other node, for graphs with or without cycles and
\* with Dependencies that point at objects outside the map.
C15_TopoIsPermutation ==
    opc = "done"
    => /\ Len(oOrder) = Cardinality(oNodes)
       /\ {oOrder[i] : i \in DOMAIN oOrder} = oNodes

(***************************************************************************)
(* Claims about the resolver's graph                                       *)
(***************************************************************************)
Returned == gpc \in {"returned", "ordered", "ordered2"}

SomeTaskFailed == \E k \in DOMAIN tasks : tasks[k].pc = "failed"

\* C13: after BuildGraph, two requirements of one name with different
\* specifiers that resolve to the same version are one Dependency object: the
\* two memo entries and the graph entry name@resolved refer to the same node.
C13_NodesShared ==
    Returned =>
        \A k1 \in DOMAIN rcache : \A k2 \in DOMAIN rcache :
            LET d1 == heap[rcache[k1]]
                d2 == heap[rcache[k2]]
            IN  d1.Name = d2.Name /\ d1.Spec # d2.Spec /\ d1.Resolved = d2.Resolved
                    => /\ rcache[k1] = rcache[k2]
                       /\ KeyOf(d1.Name, d1.Resolved) \in DOMAIN graph
                       /\ graph[KeyOf(d1.Name, d1.Resolved)] = rcache[k1]

\* C14: a call of resolveDependency(name, spec) made when an earlier call for
\* the same key has succeeded returns the object of that call and makes no
\* registry or per-version-cache lookup.
C14_MemoHit ==
    [][\A k \in DOMAIN tasks :
          tasks[k].pc = "lookup" /\ k \in DOMAIN rcache /\ tasks'[k].pc # "lookup"
              => /\ tasks'[k].pc = "graph"
                 /\ tasks'[k].dep = rcache[k]
                 /\ mdCache' = mdCache
                 /\ heap' = heap]_vars

PositionsOf(order, name, version) ==
    {j \in DOMAIN order : heap[order[j]].Name = name /\ heap[order[j]].Resolved = version}

\* C16: for an acyclic registry, the sequence TopoOrder returns for the graph
\* of BuildGraph has the resolved node of every raw child requirement of a
\* package before the package.
C16_DependenciesFirst ==
    gpc = "ordered" /\ gRoot # RootCycle /\ ~SomeTaskFailed =>
        \A i \in DOMAIN gOrder :
            \A cn \in DOMAIN heap[gOrder[i]].RawDeps :
                LET ck == KeyOf(cn, heap[gOrder[i]].RawDeps[cn])
                IN  ck \in DOMAIN rcache =>
                        \E j \in PositionsOf(gOrder, cn, heap[rcache[ck]].Resolved) : j < i

PairsOf(order) == [i \in DOMAIN order |-> <<heap[order[i]].Name, heap[order[i]].Resolved>>]

\* C17: two runs on the same roots and the same registry responses return
\* the same sequence of (name, version) pairs.
C17_DeterministicOrder ==
    gpc = "ordered2" => PairsOf(gOrder) = PairsOf(gOrder2)

\* the requirements reachable from the roots through resolved nodes have been
\* visited, and the resolved ones are in the graph
GraphClosed ==
    /\ \A n \in DOMAIN gRoot : KeyOf(n, gRoot[n]) \in DOMAIN tasks
    /\ \A k \in DOMAIN tasks :
         /\ tasks[k].pc \in {"done", "failed"}
         /\ tasks[k].pc = "done" =>
              /\ KeyOf(tasks[k].name, heap[tasks[k].dep].Resolved) \in DOMAIN graph
              /\ \A cn \in DOMAIN heap[tasks[k].dep].RawDeps :
                   KeyOf(cn, heap[tasks[k].dep].RawDeps[cn]) \in DOMAIN tasks
    /\ \A g \in DOMAIN graph :
         \E k \in DOMAIN tasks :
            tasks[k].pc = "done" /\ g = KeyOf(tasks[k].name, heap[tasks[k].dep].Resolved)

\* C18: when the resolution of some requirement fails, BuildGraph still
\* returns, and the graph it returns has every node reachable through
\* requirements that resolve and nothing else.
C18_FailureIsolation ==
    /\ SomeTaskFailed ~> Returned
    /\ [](Returned => GraphClosed)

\* C19: for every registry, cyclic ones included, and every concurrency
\* limit, BuildGraph returns (every task finishes, none waits on the
\* semaphore for ever), and with the cycle p -> q -> p both nodes are in the
\* graph.
C19_Terminates ==
    /\ (gpc \in {"visit", "wait"}) ~> Returned
    /\ [](Returned /\ gRoot = RootCycle /\ ~SomeTaskFailed
            => {KeyOf(NameP, V100), KeyOf(NameQ, V100)} \subseteq DOMAIN graph)

\* C20: when the tarball fetch of a node fails, the worker fetches once more
\* before it reports the failure (two StreamTarball calls precede the error);
\* the report of an extraction failure is preceded by no new fetch.
C20_RetryOnce ==
    [][/\ pErrs' = pErrs + 1 /\ pLastErr' = "stream" => pDown' = pDown + 2
       /\ pErrs' = pErrs + 1 /\ pLastErr' = "extract" => pDown' = pDown]_vars

PairOf(p) == <<p.Name, p.Version>>

SlotLinked(f, name) == Get(f.nm, name).kind = "link" /\ ResolveSlot(f, name) # NoLoc

NoWorkerBlocked ==
    /\ \A w \in DlWorkers : dl[w].pc # "blocked"
    /\ \A w \in LinkWorkers : lk[w].pc # "blocked"

\* a download worker that has a link item to send can send it at once
LinkSendReady == \A w \in DlWorkers : dl[w].pc = "promoted" => ENABLED DlFinish(w)

C27_ExtractFailureIsClean ==
    [][\A w \in DlWorkers :
          dl[w].pc = "stream" /\ dl'[w].pc \notin {"stream", "hashed"}
              => /\ fs' = fs
                 /\ ~dl'[w].tmp.exists
                 /\ dl'[w].pc = "idle"
                 /\ linkJobs' = linkJobs
                 /\ pErrs' = pErrs + 1
                 /\ pLastErr' = "extract"
                 /\ PairOf(dl[w].job) \in pFailed']_vars

\* the extraction of the only package has failed: the run returns an error
\* and the CAS is still empty
C27_Witness ==
    /\ pRet = "err"
    /\ pRun = 1
    /\ pLastErr = "extract"
    /\ Len(pPkgs) = 1
    /\ fs.cas = EmptyMap
    /\ fs.nm = EmptyMap

\* C26: after InstallPipeline has returned nil, the slot of every package of
\* the list is linked to that package's extract path and holds a marker with
\* the package's version.
C26_MarkerAfterPipeline ==
    pRet = "nil" =>
        \A i \in DOMAIN pPkgs :
            /\ SlotLinked(fs, pPkgs[i].Name)
            /\ Get(fs.nm, pPkgs[i].Name).to = formatDirname(pPkgs[i].Name, pPkgs[i].Version)
            /\ SlotMarkerIs(fs, pPkgs[i].Name, pPkgs[i].Version)

\* the list holds no (name, version) pair twice, as a list made from the graph
DistinctNodes ==
    \A i \in DOMAIN pPkgs : \A j \in DOMAIN pPkgs :
        i # j => PairOf(pPkgs[i]) # PairOf(pPkgs[j])

\* C30: for a list of distinct nodes, no two link workers are at work on the
\* same slot (writing its marker, removing or linking it) at the same time.
C30_SingleWriterPerSlot ==
    DistinctNodes =>
        \A w1 \in LinkWorkers : \A w2 \in LinkWorkers :
            w1 # w2 /\ lk[w1].pc # "idle" /\ lk[w2].pc # "idle"
                => lk[w1].it.name # lk[w2].it.name

\* C25: after linkPackageBinaries for an object-valued "bin", every key with
\* a non-empty value has a shim of its name that points at its value, in the
\* package.
C25_ShimPerKey ==
    bpc = "done" =>
        \A k \in DOMAIN bBin :
            bBin[k] # <<>> => k \in DOMAIN fs.bin /\ fs.bin[k] = <<bPkg, bBin[k]>>

C23_RevalidatesEveryLookup ==
    \A c \in Callers :
        (/\ xc[c].pc = "done"
         /\ xc[c].op = "resolve"
         /\ xc[c].ret.ok
         /\ xc[c].req # "failed")
        => xc[c].ret.v >= xc[c].start

\* C28: a call that reads the document on disk (on 304 or on the fallback
\* path) while another call writes it sees a complete document, the previous
\* one or the new one, never an empty or a partly written file
C28_AtomicPersistence ==
    \A c \in Callers :
        (xc[c].had /\ xc[c].saw.exists /\ \A o \in Callers : ~xc[o].bad)
        => (Parses(xc[c].saw.bytes) \/ xc[c].saw.bytes = Garbled)

\* C29: at no time are more than 64 requests of the registry client in
\* flight
C29_RequestBound == InFlight <= HttpSemCap

\* C32: in one BuildGraph run, for every key (name, spec) that was visited,
\* exactly one resolve task is started and at most one registry lookup is
\* made, whatever the interleaving of the workers that discover the key
C32_AtMostOncePerKey ==
    /\ \A key \in seen : key \in DOMAIN tasks
    /\ \A key \in DOMAIN tasks :
          /\ key \in seen
          /\ tasks[key].starts = 1
          /\ tasks[key].lookups <= 1

\* C32 witness: the roots a and b both require c with the same specifier,
\* both have visited it, and the one task of c has made its lookup
C32_Witness ==
    /\ gRoot = RootSiblings
    /\ gConc = 2
    /\ \E key \in DOMAIN tasks :
          /\ tasks[key].name = NameC
          /\ tasks[key].lookups = 1
          /\ \A r \in DOMAIN gRoot :
                /\ KeyOf(r, gRoot[r]) \in DOMAIN tasks
                /\ tasks[KeyOf(r, gRoot[r])].pc = "done"

\* C36: no goroutine reads or writes the resolver's memo map r.cache while
\* another goroutine is inside a write of it, for every concurrency limit
\* greater than 1
C36_NoRaceOnMemo ==
    [][\A k \in DOMAIN tasks :
          (/\ gConc > 1
           /\ tasks[k].pc \in {"lookup", "store"}
           /\ tasks'[k].pc # tasks[k].pc)
          => ~WriteInProgress(k)]_vars

\* C37: BuildGraph returns only after every resolve task, spawned directly or
\* transitively, has ended; the graph it returns has a node for every
\* requirement reachable through resolved nodes and is not changed after the
\* return
C37_ReturnsFinishedGraph ==
    /\ [](Returned => GraphClosed)
    /\ [][Returned => (graph' = graph /\ tasks' = tasks /\ heap' = heap)]_vars

\* C37 witness: BuildGraph has returned for the roots a and b, whose tasks
\* spawned the task of c, and c is in the graph
C37_Witness ==
    /\ Returned
    /\ gRoot = RootSiblings
    /\ gConc = 2
    /\ KeyOf(NameC, Caret100) \in DOMAIN tasks
    /\ tasks[KeyOf(NameC, Caret100)].pc = "done"
    /\ KeyOf(NameC, V100) \in DOMAIN graph

\* the complete contents of the package name at version v
PackageTree(name, v) == Tree(Registry[name].versions[v])

\* C34: in every state a run of the installer can leave behind, a slot that
\* holds a marker with version v is a link to the complete contents of the
\* package at version v (the marker is written after the slot is linked)
C34_MarkerImpliesInstalled ==
    \A n \in DOMAIN fs.nm :
        (SlotExists(fs, n) /\ DirAt(fs, ResolveSlot(fs, n)).marker.present)
        => LET d == DirAt(fs, ResolveSlot(fs, n))
           IN  /\ fs.nm[n].kind = "link"
               /\ d.marker.version \in DOMAIN Registry[n].versions
               /\ d.files = PackageTree(n, d.marker.version)

\* C40: for every name, version and hash, readIntegrity applied to the file
\* writeIntegrity(dir, name, version, hash) produced returns exactly version
C40_MarkerRoundTrip ==
    (kpc = "checked" /\ ~kTorn) => kRead = kVersion

\* C33: when the process stopped while the marker was being written, a later
\* InstallPackage does not treat the slot as up to date for a requested
\* version other than the one that was being written
C33_TornMarkerNeverSkips ==
    (kpc = "checked" /\ kTorn /\ kReq # kVersion) => ~kSkip

\* C38: InstallPackage returns early as up to date only if the slot holds a
\* readable marker whose version equals the requested version, for every
\* requested version string, the empty one included
C38_SkipRequiresMarker ==
    [][(ipc = "idle" /\ iStep' = "check" /\ ipc' = "idle")
       => /\ SlotExists(fs, iName')
          /\ LET m == DirAt(fs, ResolveSlot(fs, iName')).marker
             IN  /\ m.present
                 /\ ParseIntegrity(FormatIntegrity(m.name, m.version, m.hash)).ok
                 /\ ParseIntegrity(FormatIntegrity(m.name, m.version, m.hash)).version = iVer']_vars

\* no get_index call is under way
IdxQuiet == \A c \in Callers : xc[c].pc \in {"idle", "done"}

\* C35: after any sequence and interleaving of get_index calls, whenever the
\* sidecar holds an ETag the document on disk is the parseable body of the
\* response that carried that ETag
C35_CacheCoherence ==
    (IdxQuiet /\ xMeta # 0) => xData = FileOf(Doc(xMeta))

\* C39: two different (name, version) keys never get the same per-version
\* metadata file nor the same extract path
C39_DistinctCacheLocations ==
    (qpc = "done" /\ qA # qB)
    => /\ qPaths.mdA # qPaths.mdB
       /\ qPaths.exA # qPaths.exB

\* the version of the last entry of the list for the package name
LastVersionOf(name) ==
    pPkgs[CHOOSE i \in DOMAIN pPkgs :
            /\ pPkgs[i].Name = name
            /\ \A j \in DOMAIN pPkgs : pPkgs[j].Name = name => j <= i].Version

\* the version of the first entry of the list for the package name
FirstVersionOf(name) ==
    pPkgs[CHOOSE i \in DOMAIN pPkgs :
            /\ pPkgs[i].Name = name
            /\ \A j \in DOMAIN pPkgs : pPkgs[j].Name = name => j >= i].Version

\* C31: the project tree InstallPipeline leaves is a function of the input
\* list alone: whatever the interleaving of the workers, every slot links to
\* the version the list's order gives it (the last entry for its name)
C31_LinkOrderIrrelevant ==
    (pRet = "nil" /\ pRun = 1 /\ DistinctNodes)
    => \A i \in DOMAIN pPkgs :
          /\ SlotLinked(fs, pPkgs[i].Name)
          /\ Get(fs.nm, pPkgs[i].Name).to =
                formatDirname(pPkgs[i].Name, LastVersionOf(pPkgs[i].Name))

\* the opposite outcome: every slot on the first entry for its name (this is
\* not an invariant either, so both outcomes occur for one list)
SlotsOnFirstVersion ==
    (pRet = "nil" /\ pRun = 1 /\ DistinctNodes)
    => \A i \in DOMAIN pPkgs :
          /\ SlotLinked(fs, pPkgs[i].Name)
          /\ Get(fs.nm, pPkgs[i].Name).to =
                formatDirname(pPkgs[i].Name, FirstVersionOf(pPkgs[i].Name))

====
